---- MODULE Spec2Model ----
(***************************************************************************)
(* A model of src/src/evaluator.py: the tree-walking evaluator of the Flux *)
(* scripting language (Environment, Function.call with its tail-call       *)
(* trampoline, Evaluator.execute_block and the visit_* methods).           *)
(*                                                                         *)
(* The evaluator is modelled big-step: every visit_* method is a recursive *)
(* operator from (node, evaluator state) to an outcome record              *)
(*   [st, sig, value, function, arguments, message]                        *)
(* where sig is "ok" (the method returned value), "Return" or "TailCall"   *)
(* (the Python exception of that name is propagating) or "Error" (a        *)
(* FluxRuntimeError is propagating).  Python objects with identity         *)
(* (Environment, Function) live in the sequences heap and fns and are      *)
(* referred to by their index.                                             *)
(***************************************************************************)
EXTENDS Integers, Sequences, FiniteSets, TLC

\* Bounds of the model.
MaxArg == 3        \* largest integer argument handed to a program
MaxFor == 5        \* largest start and end value of a for loop
MaxStep == 2       \* largest absolute value of a for loop's step
MaxFuel == 40      \* body executions and loop iterations one run may perform

(***************************************************************************)
(* Runtime values.  Every value is a record [t, v]; v is an integer except  *)
(* for a str, where it is the sequence of the string's characters.  A list *)
(* is an object with identity: v is its index in the sequence arrays.  A   *)
(* float is modelled where its value is an integer (v); an operation whose *)
(* result is another float has no outcome in the model, and neither has a  *)
(* dict.                                                                   *)
(***************************************************************************)
None == [t |-> "nil", v |-> 0]
IntV(n) == [t |-> "int", v |-> n]
BoolV(b) == [t |-> "bool", v |-> IF b THEN 1 ELSE 0]
FnV(id) == [t |-> "fn", v |-> id]
BuiltinLen == [t |-> "builtin", v |-> 0]
FloatV(n) == [t |-> "float", v |-> n]
StrV(chars) == [t |-> "str", v |-> chars]
ArrayV(id) == [t |-> "array", v |-> id]

\* isinstance(x, (int, float)): a Python bool is an int.
IsNumber(x) == x.t \in {"int", "bool", "float"}
\* The number n as the result of Python arithmetic on the numbers a and b
NumV(a, b, n) == IF a.t = "float" \/ b.t = "float" THEN FloatV(n) ELSE IntV(n)
\* isinstance(x, Function)
IsFunction(x) == x.t = "fn"

\* isinstance(x, int), as visit_array_access tests an index: a bool is an int
IsInt(x) == x.t \in {"int", "bool"}

\* type(x).__name__
TypeName(x) ==
    CASE x.t = "nil" -> "NoneType"
      [] x.t = "int" -> "int"
      [] x.t = "bool" -> "bool"
      [] x.t = "float" -> "float"
      [] x.t = "str" -> "str"
      [] x.t = "array" -> "list"
      [] x.t = "fn" -> "Function"
      [] x.t = "builtin" -> "BuiltinFunction"

\* Python's == on runtime values: numbers by value, strings by their
\* characters, lists element by element, other objects by identity.
RECURSIVE PyEq(_, _, _)
PyEq(a, b, arrays) ==
    IF IsNumber(a) /\ IsNumber(b) THEN a.v = b.v
    ELSE IF a.t = "array" /\ b.t = "array"
    THEN \/ a.v = b.v
         \/ /\ Len(arrays[a.v]) = Len(arrays[b.v])
            /\ \A i \in 1..Len(arrays[a.v]) :
                    PyEq(arrays[a.v][i], arrays[b.v][i], arrays)
    ELSE a.t = b.t /\ a.v = b.v

\* Python's % on integers (the sign follows the divisor), for b # 0.
PyMod(a, b) == IF b > 0 THEN a % b ELSE -((-a) % (-b))

\* Python's a ** b on integers, for b >= 0
RECURSIVE PyPow(_, _)
PyPow(a, b) == IF b = 0 THEN 1 ELSE a * PyPow(a, b - 1)

(***************************************************************************)
(* Text.  A text is a sequence of strings whose concatenation is the       *)
(* Python string; an integer is rendered digit by digit.                   *)
(***************************************************************************)
DigitChar(d) ==
    CASE d = 0 -> "0" [] d = 1 -> "1" [] d = 2 -> "2" [] d = 3 -> "3"
      [] d = 4 -> "4" [] d = 5 -> "5" [] d = 6 -> "6" [] d = 7 -> "7"
      [] d = 8 -> "8" [] d = 9 -> "9"

RECURSIVE Digits(_)
Digits(n) ==
    IF n < 10 THEN <<DigitChar(n)>>
    ELSE Append(Digits(n \div 10), DigitChar(n % 10))

\* str(n) for a Python int
IntText(n) == IF n < 0 THEN <<"-">> \o Digits(-n) ELSE Digits(n)

RECURSIVE JoinParams(_, _)
JoinParams(params, i) ==
    IF i > Len(params) THEN << >>
    ELSE (IF i > 1 THEN <<", ">> ELSE << >>) \o <<params[i]>> \o JoinParams(params, i + 1)

(***************************************************************************)
(* AST nodes (src.ast_1, consumed by the evaluator).  Every node is a      *)
(* record with the fields the evaluator reads and a field k naming its     *)
(* class.  NoNode is Python's None where a node is optional.               *)
(***************************************************************************)
NoNode == [k |-> "None"]
Integer(value) == [k |-> "Integer", value |-> value]
Boolean(value) == [k |-> "Boolean", value |-> value]
String(value) == [k |-> "String", value |-> value]
Var(name) == [k |-> "Var", name |-> name]
VarAssign(name, value) == [k |-> "VarAssign", name |-> name, value |-> value]
VarReassign(name, value) == [k |-> "VarReassign", name |-> name, value |-> value]
BinOp(left, operator, right) ==
    [k |-> "BinOp", left |-> left, operator |-> operator, right |-> right]
UnaryOp(operator, right) == [k |-> "UnaryOp", operator |-> operator, right |-> right]
Block(statements) == [k |-> "Block", statements |-> statements]
If(condition, then_branch, else_branch) ==
    [k |-> "If", condition |-> condition, then_branch |-> then_branch,
     else_branch |-> else_branch]
While(condition, body) == [k |-> "While", condition |-> condition, body |-> body]
For(var_name, start, end, step, body) ==
    [k |-> "For", var_name |-> var_name, start |-> start, end |-> end,
     step |-> step, body |-> body]
FuncDef(name, params, body) ==
    [k |-> "FuncDef", name |-> name, params |-> params, body |-> body]
FuncCall(callee, args, token) ==
    [k |-> "FuncCall", callee |-> callee, args |-> args, token |-> token]
Return(value) == [k |-> "Return", value |-> value]
MatchCase(pattern, body) == [k |-> "MatchCase", pattern |-> pattern, body |-> body]
Array(elements) == [k |-> "Array", elements |-> elements]
\* array is the name of the variable (node.array, or node.array.name of a Var)
ArrayAssign(array, index, value, token) ==
    [k |-> "ArrayAssign", array |-> array, index |-> index, value |-> value,
     token |-> token]
ArrayAccess(array, index, token) ==
    [k |-> "ArrayAccess", array |-> array, index |-> index, token |-> token]
Match(expression, cases) == [k |-> "Match", expression |-> expression, cases |-> cases]
PrintNode(expression) == [k |-> "Print", expression |-> expression]

(***************************************************************************)
(* Environment.  heap[e] = [parent, variables]; parent = 0 is None.        *)
(***************************************************************************)
NoEnv == 0
GlobalEnv == 1

\* Environment.__init__: a new object at the end of the heap
NewEnvironment(heap, parent) ==
    Append(heap, [parent |-> parent, variables |-> << >>])

Bound(heap, e, name) == name \in DOMAIN heap[e].variables

\* Environment.get: [found, value]
RECURSIVE get(_, _, _)
get(heap, e, name) ==
    IF Bound(heap, e, name) THEN [found |-> TRUE, value |-> heap[e].variables[name]]
    ELSE IF heap[e].parent # NoEnv THEN get(heap, heap[e].parent, name)
    ELSE [found |-> FALSE, value |-> None]

\* Mutant of assign: a name bound nowhere is created in the outermost Environment.
RECURSIVE assign_or_create(_, _, _, _)
assign_or_create(heap, e, name, value) ==
    IF Bound(heap, e, name)
    THEN [found |-> TRUE, heap |-> [heap EXCEPT ![e].variables[name] = value]]
    ELSE IF heap[e].parent # NoEnv THEN assign_or_create(heap, heap[e].parent, name, value)
    ELSE [found |-> TRUE,
          heap |-> [heap EXCEPT ![e].variables = (name :> value) @@ @]]

\* Mutant of assign: the outermost binding of the name is the one mutated.
RECURSIVE assign_outermost(_, _, _, _)
assign_outermost(heap, e, name, value) ==
    IF heap[e].parent # NoEnv /\ get(heap, heap[e].parent, name).found
    THEN assign_outermost(heap, heap[e].parent, name, value)
    ELSE IF Bound(heap, e, name)
    THEN [found |-> TRUE, heap |-> [heap EXCEPT ![e].variables[name] = value]]
    ELSE [found |-> FALSE, heap |-> heap]

\* Environment.assign: [found, heap]
RECURSIVE assign(_, _, _, _)
assign(heap, e, name, value) ==
    IF Bound(heap, e, name)
    THEN [found |-> TRUE, heap |-> [heap EXCEPT ![e].variables[name] = value]]
    ELSE IF heap[e].parent # NoEnv THEN assign(heap, heap[e].parent, name, value)
    ELSE [found |-> FALSE, heap |-> heap]

\* Mutant of define: a name already bound in the chain is overwritten there.
define_through(heap, e, name, value) ==
    IF get(heap, e, name).found THEN assign(heap, e, name, value).heap
    ELSE [heap EXCEPT ![e].variables = (name :> value) @@ @]

\* Environment.define
define(heap, e, name, value) ==
    [heap EXCEPT ![e].variables = (name :> value) @@ @]

(***************************************************************************)
(* Function objects.  fns[f] = [declaration, closure, name, params]        *)
(* (Function.__init__); current_function = 0 is None.                      *)
(***************************************************************************)
NoFunction == 0

Function(declaration, closure) ==
    [declaration |-> declaration, closure |-> closure,
     name |-> declaration.name, params |-> declaration.params]

\* Function.__str__ of a named function
FunctionText(fn) == <<"<function ", fn.name, "(">> \o JoinParams(fn.params, 1) \o <<")>">>

(***************************************************************************)
(* Outcomes of a method: it returned (Ok) or it raised.                    *)
(***************************************************************************)
Ok(st, value) ==
    [st |-> st, sig |-> "ok", value |-> value, function |-> NoFunction,
     arguments |-> << >>, message |-> << >>]
RaiseReturn(st, value) ==
    [st |-> st, sig |-> "Return", value |-> value, function |-> NoFunction,
     arguments |-> << >>, message |-> << >>]
RaiseTailCall(st, function, arguments) ==
    [st |-> st, sig |-> "TailCall", value |-> None, function |-> function,
     arguments |-> arguments, message |-> << >>]

\* The trace of one run: what the evaluator did, in order (not program state).
Logged(st, event) == [st EXCEPT !.log = Append(@, event)]

\* raise FluxRuntimeError(token, message); the trace records where
FluxRuntimeError(st, message) ==
    [st |-> Logged(st, [ev |-> "raise", message |-> message, heap |-> st.heap,
                        arrays |-> st.arrays, out |-> st.out]),
     sig |-> "Error", value |-> None, function |-> NoFunction,
     arguments |-> << >>, message |-> message]

(***************************************************************************)
(* Evaluator.is_truthy and Evaluator.stringify                             *)
(***************************************************************************)
is_truthy(value) ==
    IF value.t = "nil" THEN FALSE
    ELSE IF IsNumber(value) /\ value.v = 0 THEN FALSE
    ELSE IF value.t = "str" /\ value.v = << >> THEN FALSE
    ELSE TRUE

\* repr(value), which str(list) applies to the elements of the list.  The
\* repr of a Function or BuiltinFunction holds the object's address.
RECURSIVE repr(_, _)
RECURSIVE repr_elements(_, _, _)
repr_elements(elements, i, st) ==
    IF i > Len(elements) THEN << >>
    ELSE (IF i > 1 THEN <<",", " ">> ELSE << >>) \o repr(elements[i], st)
             \o repr_elements(elements, i + 1, st)

repr(value, st) ==
    CASE value.t = "nil" -> <<"N", "o", "n", "e">>
      [] value.t = "int" -> IntText(value.v)
      [] value.t = "bool" -> IF value.v = 1 THEN <<"T", "r", "u", "e">>
                             ELSE <<"F", "a", "l", "s", "e">>
      [] value.t = "float" -> IntText(value.v) \o <<".", "0">>
      [] value.t = "str" -> <<"'">> \o value.v \o <<"'">>
      [] value.t = "array" -> <<"[">> \o repr_elements(st.arrays[value.v], 1, st) \o <<"]">>
      [] value.t = "fn" -> <<"<src.evaluator.Function object at 0x...>">>
      [] value.t = "builtin" -> <<"<src.evaluator.BuiltinFunction object at 0x...>">>

stringify(value, st) ==
    CASE value.t = "nil" -> <<"n", "i", "l">>
      [] value.t = "int" -> IntText(value.v)
      [] value.t = "bool" -> IF value.v = 1 THEN <<"T", "r", "u", "e">>
                             ELSE <<"F", "a", "l", "s", "e">>
      [] value.t = "float" -> IntText(value.v)
      [] value.t = "str" -> value.v
      [] value.t = "array" -> repr(value, st)
      [] value.t = "fn" -> FunctionText(st.fns[value.v])
      [] value.t = "builtin" -> <<"<built-in function ", "len", ">">>

\* Evaluator.check_number_operands
check_number_operands(left, right) == IsNumber(left) /\ IsNumber(right)

RECURSIVE evaluate(_, _)
RECURSIVE execute_block(_, _, _)
RECURSIVE exec_statements(_, _, _, _)
RECURSIVE evaluate_args(_, _, _, _)
RECURSIVE call(_, _, _, _)
RECURSIVE trampoline(_, _, _, _, _, _, _)
RECURSIVE while_loop(_, _, _)
RECURSIVE for_loop(_, _, _, _, _, _, _, _)
RECURSIVE visit_return(_, _)
RECURSIVE visit_func_call(_, _)
RECURSIVE visit_bin_op(_, _)
RECURSIVE visit_unary_op(_, _)
RECURSIVE visit_var_assign(_, _)
RECURSIVE visit_var_reassign(_, _)
RECURSIVE visit_block(_, _)
RECURSIVE visit_if(_, _)
RECURSIVE visit_while(_, _)
RECURSIVE visit_for(_, _)
RECURSIVE visit_print(_, _)
RECURSIVE match_cases(_, _, _, _)
RECURSIVE visit_match(_, _)
RECURSIVE visit_array(_, _)
RECURSIVE visit_array_assign(_, _)
RECURSIVE visit_array_access(_, _)

\* Evaluator.visit_integer, visit_boolean
visit_integer(node, st) == Ok(st, IntV(node.value))
visit_boolean(node, st) == Ok(st, BoolV(node.value))
visit_string(node, st) == Ok(st, StrV(node.value))

\* Evaluator.visit_var
visit_var(node, st) ==
    LET g == get(st.heap, st.env, node.name)
    IN  IF g.found THEN Ok(st, g.value)
        ELSE FluxRuntimeError(st, <<"Undefined variable '", node.name, "'">>)

\* Evaluator.visit_var_assign
visit_var_assign(node, st) ==
    LET defined(r, after) ==
            Ok(Logged([r.st EXCEPT !.heap = after],
                      [ev |-> "define", env |-> r.st.env, name |-> node.name,
                       value |-> r.value, before |-> r.st.heap, after |-> after]),
               r.value)
        evaluated(r) ==
            IF r.sig # "ok" THEN r
            ELSE defined(r, define(r.st.heap, r.st.env, node.name, r.value))
    IN  evaluated(evaluate(node.value, st))

\* Evaluator.visit_var_reassign
visit_var_reassign(node, st) ==
    LET assigned(r, a) ==
            LET st1 == Logged([r.st EXCEPT !.heap = a.heap],
                              [ev |-> "assign", env |-> r.st.env, name |-> node.name,
                               value |-> r.value, found |-> a.found,
                               before |-> r.st.heap, after |-> a.heap])
            IN  IF a.found THEN Ok(st1, r.value)
                ELSE FluxRuntimeError(st1,
                         <<"Cannot reassign undefined variable '", node.name, "'">>)
        evaluated(r) ==
            IF r.sig # "ok" THEN r
            ELSE assigned(r, assign(r.st.heap, r.st.env, node.name, r.value))
    IN  evaluated(evaluate(node.value, st))

\* visit_bin_op, lines 248 and 250: isinstance(x, (int, float, bool, Function))
IsStringable(x) == IsNumber(x) \/ IsFunction(x)

\* The operator of visit_bin_op applied to two evaluated operands.  A quotient
\* or a power that is not an integer has no arm.
bin_op(operator, left, right, st) ==
    CASE operator = "PLUS" ->
            IF IsNumber(left) /\ IsNumber(right)
            THEN Ok(st, NumV(left, right, left.v + right.v))
            ELSE IF left.t = "str" /\ right.t = "str"
            THEN Ok(st, StrV(left.v \o right.v))
            ELSE IF left.t = "str" /\ IsStringable(right)
            THEN Ok(st, StrV(left.v \o stringify(right, st)))
            ELSE IF IsStringable(left) /\ right.t = "str"
            THEN Ok(st, StrV(stringify(left, st) \o right.v))
            ELSE FluxRuntimeError(st,
                <<"Operands must be two numbers, two strings, or a string and another type for '+'">>)
      [] operator \in {"MINUS", "MULTIPLY", "DIVIDE", "EXPONENT", "REM",
                       "LT", "GT", "LTE", "GTE"} ->
            IF ~check_number_operands(left, right)
            THEN FluxRuntimeError(st, <<"Operands must be numbers">>)
            ELSE (CASE operator = "MINUS" -> Ok(st, NumV(left, right, left.v - right.v))
                   [] operator = "MULTIPLY" -> Ok(st, NumV(left, right, left.v * right.v))
                   [] operator = "DIVIDE" /\ right.v = 0 ->
                        FluxRuntimeError(st, <<"Division by zero">>)
                   [] operator = "DIVIDE" /\ right.v # 0 /\ PyMod(left.v, right.v) = 0 ->
                        Ok(st, FloatV(left.v \div right.v))
                   [] operator = "EXPONENT" /\ right.v >= 0 ->
                        Ok(st, NumV(left, right, PyPow(left.v, right.v)))
                   [] operator = "EXPONENT" /\ right.v < 0 /\ left.v \in {1, -1} ->
                        Ok(st, FloatV(PyPow(left.v, -right.v)))
                   [] operator = "REM" ->
                        IF right.v = 0 THEN FluxRuntimeError(st, <<"Remainder by zero">>)
                        ELSE Ok(st, NumV(left, right, PyMod(left.v, right.v)))
                   [] operator = "LT" -> Ok(st, BoolV(left.v < right.v))
                   [] operator = "GT" -> Ok(st, BoolV(left.v > right.v))
                   [] operator = "LTE" -> Ok(st, BoolV(left.v <= right.v))
                   [] operator = "GTE" -> Ok(st, BoolV(left.v >= right.v)))
      [] operator = "EQEQ" -> Ok(st, BoolV(PyEq(left, right, st.arrays)))
      [] operator = "NOTEQ" -> Ok(st, BoolV(~PyEq(left, right, st.arrays)))
      [] operator = "AND" -> Ok(st, BoolV(is_truthy(left) /\ is_truthy(right)))
      [] operator = "OR" -> Ok(st, BoolV(is_truthy(left) \/ is_truthy(right)))
      [] OTHER -> FluxRuntimeError(st, <<"Unknown binary operator '", operator, "'">>)

\* A mutation of visit_bin_op: `and` and `or` do not evaluate the right
\* operand when the left one decides.
visit_bin_op_short_circuit(node, st) ==
    LET with_right(l, r) ==
            IF r.sig # "ok" THEN r
            ELSE bin_op(node.operator, l.value, r.value, r.st)
        with_left(l) ==
            IF l.sig # "ok" THEN l
            ELSE IF node.operator = "AND" /\ ~is_truthy(l.value)
            THEN Ok(l.st, BoolV(FALSE))
            ELSE IF node.operator = "OR" /\ is_truthy(l.value)
            THEN Ok(l.st, BoolV(TRUE))
            ELSE with_right(l, evaluate(node.right, l.st))
    IN  with_left(evaluate(node.left, st))

\* Evaluator.visit_bin_op: both operands are evaluated, left first
visit_bin_op(node, st) ==
    LET with_right(l, r) ==
            IF r.sig # "ok" THEN r
            ELSE bin_op(node.operator, l.value, r.value, r.st)
        with_left(l) ==
            IF l.sig # "ok" THEN l
            ELSE with_right(l, evaluate(node.right, l.st))
    IN  with_left(evaluate(node.left, st))

\* Evaluator.visit_unary_op
visit_unary_op(node, st) ==
    LET with_right(r) ==
            IF r.sig # "ok" THEN r
            ELSE CASE node.operator = "MINUS" ->
                        IF IsNumber(r.value) THEN Ok(r.st, NumV(r.value, r.value, -r.value.v))
                        ELSE FluxRuntimeError(r.st, <<"Operand must be a number">>)
                   [] node.operator = "NOT" -> Ok(r.st, BoolV(~is_truthy(r.value)))
                   [] OTHER -> FluxRuntimeError(r.st,
                                    <<"Unknown unary operator '", node.operator, "'">>)
    IN  with_right(evaluate(node.right, st))

\* A mutation of exec_statements: a FluxRuntimeError of a statement is
\* dropped and the block goes on with the next statement.
exec_statements_resume(statements, i, result, st) ==
    IF i > Len(statements) THEN Ok(st, result)
    ELSE LET is_last == (i = Len(statements))
             old_tail_pos == st.in_tail_position
             is_body == /\ st.current_function # NoFunction
                        /\ statements =
                               st.fns[st.current_function].declaration.body.statements
             st1 == [st EXCEPT !.in_tail_position =
                                   IF is_last THEN @ \/ (st.current_function # NoFunction)
                                   ELSE @,
                               !.final = IF is_body THEN is_last ELSE @]
             begun == Logged(st1, [ev |-> "stmt", function |-> st.current_function,
                                   index |-> i, final |-> st1.final,
                                   before |-> old_tail_pos,
                                   flag |-> st1.in_tail_position,
                                   stack |-> st.stack])
             ended(r, after) ==
                 Logged([r.st EXCEPT !.in_tail_position = after, !.final = st.final],
                        [ev |-> "stmtend", sig |-> r.sig, value |-> r.value,
                         before |-> old_tail_pos, after |-> after])
             evaluated(r) ==
                 IF r.sig = "Return"
                 THEN [r EXCEPT !.st = ended(r, r.st.in_tail_position)]
                 ELSE IF r.sig \notin {"ok", "Error"} THEN r
                 ELSE exec_statements(statements, i + 1, r.value, ended(r, old_tail_pos))
         IN  evaluated(evaluate(statements[i], begun))

\* Evaluator.execute_block, the loop over block.statements.  The branch
\* `isinstance(stmt, Return)` (lines 198-205) tests against the exception class
\* Return of line 77, which shadows the AST class imported on line 5: no AST
\* node is an instance of it, so every statement goes through evaluate.
\* in_tail_position is restored (line 207) when the statement returns, not
\* when it raises.  The field final is not program state: it records whether
\* the statement of the active function's body that is being evaluated is
\* the body's last one.
exec_statements(statements, i, result, st) ==
    IF i > Len(statements) THEN Ok(st, result)
    ELSE LET is_last == (i = Len(statements))
             old_tail_pos == st.in_tail_position
             is_body == /\ st.current_function # NoFunction
                        /\ statements =
                               st.fns[st.current_function].declaration.body.statements
             st1 == [st EXCEPT !.in_tail_position =
                                   IF is_last THEN @ \/ (st.current_function # NoFunction)
                                   ELSE @,
                               !.final = IF is_body THEN is_last ELSE @]
             begun == Logged(st1, [ev |-> "stmt", function |-> st.current_function,
                                   index |-> i, final |-> st1.final,
                                   before |-> old_tail_pos,
                                   flag |-> st1.in_tail_position,
                                   stack |-> st.stack])
             ended(r, after) ==
                 Logged([r.st EXCEPT !.in_tail_position = after, !.final = st.final],
                        [ev |-> "stmtend", sig |-> r.sig, value |-> r.value,
                         before |-> old_tail_pos, after |-> after])
             evaluated(r) ==
                 IF r.sig = "Return"
                 THEN [r EXCEPT !.st = ended(r, r.st.in_tail_position)]
                 ELSE IF r.sig # "ok" THEN r
                 ELSE exec_statements(statements, i + 1, r.value, ended(r, old_tail_pos))
         IN  evaluated(evaluate(statements[i], begun))

\* A mutation of execute_block: self.env is restored when the block returns,
\* not when it raises.
execute_block_unrestored(block, env, st) ==
    LET previous_env == st.env
        left(r) ==
            [r EXCEPT !.st =
                Logged([@ EXCEPT !.env = IF r.sig = "ok" THEN previous_env ELSE @],
                       [ev |-> "left", sig |-> r.sig, entered |-> env,
                        previous |-> previous_env,
                        env |-> IF r.sig = "ok" THEN previous_env ELSE r.st.env])]
    IN  left(exec_statements(block.statements, 1, None, [st EXCEPT !.env = env]))

\* Evaluator.execute_block: self.env is restored in the finally clause
execute_block(block, env, st) ==
    LET previous_env == st.env
        left(r) ==
            [r EXCEPT !.st = Logged([@ EXCEPT !.env = previous_env],
                                    [ev |-> "left", sig |-> r.sig, entered |-> env,
                                     previous |-> previous_env, env |-> previous_env])]
    IN  left(exec_statements(block.statements, 1, None, [st EXCEPT !.env = env]))

\* Evaluator.visit_block
visit_block(node, st) ==
    LET heap1 == NewEnvironment(st.heap, st.env)
        left(r) ==
            [r EXCEPT !.st = Logged(@, [ev |-> "block", outer |-> st.env,
                                        inner |-> Len(heap1), sig |-> r.sig,
                                        env |-> r.st.env])]
    IN  left(execute_block(node, Len(heap1), [st EXCEPT !.heap = heap1]))

\* Evaluator.visit_if
visit_if(node, st) ==
    LET with_condition(c) ==
            IF c.sig # "ok" THEN c
            ELSE IF is_truthy(c.value) THEN evaluate(node.then_branch, c.st)
            ELSE IF node.else_branch.k # "None" THEN evaluate(node.else_branch, c.st)
            ELSE Ok(c.st, None)
    IN  with_condition(evaluate(node.condition, st))

\* Evaluator.visit_while, the loop with its running result
while_loop(node, result, st) ==
    LET with_body(b) ==
            IF b.sig # "ok" THEN b ELSE while_loop(node, b.value, b.st)
        with_condition(c) ==
            IF c.sig # "ok" THEN c
            ELSE IF ~is_truthy(c.value) THEN Ok(c.st, result)
            ELSE IF c.st.fuel = 0 THEN FluxRuntimeError(c.st, <<"out of fuel">>)
            ELSE with_body(evaluate(node.body, [c.st EXCEPT !.fuel = @ - 1]))
    IN  with_condition(evaluate(node.condition, st))

visit_while(node, st) == while_loop(node, None, st)

\* Mutant of for_continues: the end value is excluded.
for_continues_strict(step, current, end) ==
    (step > 0 /\ current < end) \/ (step < 0 /\ current > end)

\* Evaluator.visit_for, the loop condition of line 344
for_continues(step, current, end) ==
    (step > 0 /\ current <= end) \/ (step < 0 /\ current >= end)

\* A mutation of body_environment: the Environment of an iteration starts
\* with the variables of the previous iteration's.
body_environment_kept(heap, loop_env) ==
    IF heap[Len(heap)].parent = loop_env
    THEN Append(heap, heap[Len(heap)])
    ELSE NewEnvironment(heap, loop_env)

\* Evaluator.visit_for, line 345: body_env = Environment(loop_env)
body_environment(heap, loop_env) == NewEnvironment(heap, loop_env)

\* Evaluator.visit_for, the while loop of lines 344-348
for_loop(node, id, loop_env, current, end, step, result, st) ==
    IF ~for_continues(step.v, current.v, end.v)
    THEN Ok(Logged(st, [ev |-> "forend", id |-> id]), result)
    ELSE IF st.fuel = 0 THEN FluxRuntimeError(st, <<"out of fuel">>)
    ELSE LET heap1 == body_environment(st.heap, loop_env)
             body_env == Len(heap1)
             st1 == Logged([st EXCEPT !.heap = heap1, !.fuel = @ - 1],
                           [ev |-> "iter", id |-> id, loop_env |-> loop_env,
                            body_env |-> body_env, var_name |-> node.var_name,
                            heap |-> heap1,
                            value |-> st.heap[loop_env].variables[node.var_name]])
             advanced(b, a) ==
                 IF ~a.found
                 THEN FluxRuntimeError(b.st,
                          <<"Cannot reassign undefined variable '", node.var_name, "'">>)
                 ELSE for_loop(node, id, loop_env,
                               NumV(current, step, current.v + step.v), end, step,
                               b.value, [b.st EXCEPT !.heap = a.heap])
             with_body(b) ==
                 IF b.sig # "ok" THEN b
                 ELSE advanced(b, assign(b.st.heap, loop_env, node.var_name,
                                         NumV(current, step, current.v + step.v)))
         IN  with_body(execute_block(node.body, body_env, st1))

\* Evaluator.visit_for
visit_for(node, st) ==
    LET with_step(s, e, p) ==
            IF p.sig # "ok" THEN p
            ELSE IF ~IsNumber(s.value)
            THEN FluxRuntimeError(p.st, <<"Start value must be a number">>)
            ELSE IF ~IsNumber(e.value)
            THEN FluxRuntimeError(p.st, <<"End value must be a number">>)
            ELSE IF ~IsNumber(p.value)
            THEN FluxRuntimeError(p.st, <<"Step value must be a number">>)
            ELSE IF p.value.v = 0
            THEN FluxRuntimeError(Logged(p.st, [ev |-> "forzero",
                                                id |-> Len(p.st.log) + 1]),
                                  <<"Step cannot be zero">>)
            ELSE LET heap1 == NewEnvironment(p.st.heap, p.st.env)
                     loop_env == Len(heap1)
                     id == Len(p.st.log) + 1
                 IN  for_loop(node, id, loop_env, s.value, e.value, p.value, None,
                              Logged([p.st EXCEPT !.heap = define(heap1, loop_env,
                                                                  node.var_name, s.value)],
                                     [ev |-> "for", id |-> id, start |-> s.value.v,
                                      end |-> e.value.v, step |-> p.value.v]))
        with_end(s, e) ==
            IF e.sig # "ok" THEN e
            ELSE with_step(s, e, IF node.step.k # "None" THEN evaluate(node.step, e.st)
                                 ELSE Ok(e.st, IntV(1)))
        with_start(s) ==
            IF s.sig # "ok" THEN s
            ELSE with_end(s, evaluate(node.end, s.st))
    IN  with_start(evaluate(node.start, st))

\* A mutation of case_matches: every pattern is taken to match.
case_matches_always(value, pattern, arrays) == TRUE

\* Evaluator.visit_match, the test `value == pattern` of a case
case_matches(value, pattern, arrays) == PyEq(value, pattern, arrays)

\* Evaluator.visit_match, the loop over node.cases from case i on
match_cases(node, value, i, st) ==
    IF i > Len(node.cases)
    THEN FluxRuntimeError(st, <<"No matching case found">>)
    ELSE LET with_pattern(p) ==
                 IF p.sig # "ok" THEN p
                 ELSE IF case_matches(value, p.value, p.st.arrays)
                      THEN evaluate(node.cases[i].body, p.st)
                 ELSE match_cases(node, value, i + 1, p.st)
         IN  with_pattern(evaluate(node.cases[i].pattern, st))

\* Evaluator.visit_match
visit_match(node, st) ==
    LET with_value(v) ==
            IF v.sig # "ok" THEN v
            ELSE match_cases(node, v.value, 1, v.st)
    IN  with_value(evaluate(node.expression, st))

\* Evaluator.visit_print: one line of standard output
visit_print(node, st) ==
    LET printed(r) ==
            IF r.sig # "ok" THEN r
            ELSE Ok([r.st EXCEPT !.out = Append(@, stringify(r.value, r.st))],
                    r.value)
    IN  printed(evaluate(node.expression, st))

\* A mutation of visit_func_def: the closure is a copy of the defining
\* Environment as it is at the definition.
visit_func_def_snapshot(node, st) ==
    LET heap1 == Append(st.heap, st.heap[st.env])
        fns1 == Append(st.fns, Function(node, Len(heap1)))
        func == Len(fns1)
    IN  Ok(Logged([st EXCEPT !.fns = fns1,
                             !.heap = define(heap1, st.env, node.name, FnV(func))],
                  [ev |-> "def", function |-> func, env |-> st.env]),
           FnV(func))

\* Evaluator.visit_func_def
visit_func_def(node, st) ==
    LET fns1 == Append(st.fns, Function(node, st.env))
        func == Len(fns1)
    IN  Ok(Logged([st EXCEPT !.fns = fns1,
                             !.heap = define(st.heap, st.env, node.name, FnV(func))],
                  [ev |-> "def", function |-> func, env |-> st.env]),
           FnV(func))

\* Evaluator.builtin_len, reached through BuiltinFunction.call
builtin_len(arguments, st) ==
    IF Len(arguments) # 1
    THEN FluxRuntimeError(st, <<"'len' expected 1 argument, got ">> \o IntText(Len(arguments)))
    ELSE IF arguments[1].t = "nil"
    THEN FluxRuntimeError(st, <<"'len' cannot be applied to 'None'">>)
    ELSE IF arguments[1].t = "str" THEN Ok(st, IntV(Len(arguments[1].v)))
    ELSE IF arguments[1].t = "array" THEN Ok(st, IntV(Len(st.arrays[arguments[1].v])))
    ELSE FluxRuntimeError(st, <<"'len' expects an array, string, or dictionary, but got ",
                                TypeName(arguments[1])>>)

\* [self.evaluate(arg) for arg in node.args]: value holds the list so far
evaluate_args(args, i, values, st) ==
    IF i > Len(args)
    THEN [st |-> st, sig |-> "ok", value |-> None, function |-> NoFunction,
          arguments |-> values, message |-> << >>]
    ELSE LET evaluated(r) ==
                 IF r.sig # "ok" THEN r
                 ELSE evaluate_args(args, i + 1, Append(values, r.value), r.st)
         IN  evaluated(evaluate(args[i], st))

\* The message of the arity errors of Function.call (lines 101-102, 127-128)
ArityMessage(expected, actual) ==
    <<"Expected ">> \o IntText(expected) \o <<" arguments, got ">> \o IntText(actual)

\* for param, arg in zip(self.params, arguments): env.define(param, arg)
RECURSIVE define_params(_, _, _, _, _)
define_params(heap, e, params, arguments, i) ==
    IF i > Len(params) \/ i > Len(arguments) THEN heap
    ELSE define_params(define(heap, e, params[i], arguments[i]), e, params,
                       arguments, i + 1)

\* A mutation of assign_params: only the first parameter is rebound.
assign_params_first(heap, e, params, arguments, i) ==
    IF i > 1 \/ i > Len(params) \/ i > Len(arguments) THEN heap
    ELSE assign(heap, e, params[1], arguments[1]).heap

\* for param, arg in zip(self.params, tail_call.arguments): env.assign(param, arg, token)
RECURSIVE assign_params(_, _, _, _, _)
assign_params(heap, e, params, arguments, i) ==
    IF i > Len(params) \/ i > Len(arguments) THEN heap
    ELSE assign_params(assign(heap, e, params[i], arguments[i]).heap, e, params,
                       arguments, i + 1)

\* Mutant of arity_mismatch: no check.
arity_unchecked(self, arguments) == FALSE

\* Function.call, lines 100 and 126: the arity check
arity_mismatch(self, arguments) == Len(arguments) # Len(self.params)

\* Mutant of call_environment: the parent is the caller's Environment.
call_environment_of_caller(self, st) == NewEnvironment(st.heap, st.env)

\* Function.call, line 104: the Environment of the call
call_environment(self, st) == NewEnvironment(st.heap, self.closure)

\* Mutant of tail_call_requested: visit_func_call never signals a TailCall.
tail_call_never(callee, st) == FALSE

\* Evaluator.visit_array: a new list of the elements' values
visit_array(node, st) ==
    LET with_elements(e) ==
            IF e.sig # "ok" THEN e
            ELSE Ok([e.st EXCEPT !.arrays = Append(@, e.arguments)],
                    ArrayV(Len(e.st.arrays) + 1))
    IN  with_elements(evaluate_args(node.elements, 1, << >>, st))

\* visit_array_assign and visit_array_access,
\* the negation of `index < 0 or index >= len(array)`
index_in_bounds(index, array) == ~(index < 0 \/ index >= Len(array))

\* Evaluator.visit_array_assign
visit_array_assign(node, st) ==
    LET g == get(st.heap, st.env, node.array)
        stored(v, a) ==
            IF a.found THEN Ok([v.st EXCEPT !.heap = a.heap], v.value)
            ELSE FluxRuntimeError(v.st,
                     <<"Cannot reassign undefined variable '", node.array, "'">>)
        checked(i, v) ==
            IF g.value.t # "array"
            THEN FluxRuntimeError(v.st, <<"Cannot assign to non-array type: ",
                                          TypeName(g.value)>>)
            ELSE IF ~IsInt(i.value)
            THEN FluxRuntimeError(v.st, <<"Array index must be an integer, got ",
                                          TypeName(i.value)>>)
            ELSE IF ~index_in_bounds(i.value.v, v.st.arrays[g.value.v])
            THEN FluxRuntimeError(v.st, <<"Array index ">> \o stringify(i.value, v.st)
                                            \o <<" out of bounds">>)
            ELSE stored([v EXCEPT !.st.arrays[g.value.v][i.value.v + 1] = v.value],
                        assign(v.st.heap, v.st.env, node.array, g.value))
        done(i, v, r) ==
            [r EXCEPT !.st = Logged(@, [ev |-> "store", holder |-> g.value,
                                        index |-> i.value, value |-> v.value,
                                        sig |-> r.sig, before |-> v.st.arrays,
                                        after |-> r.st.arrays])]
        with_value(i, v) ==
            IF v.sig # "ok" THEN v
            ELSE done(i, v, checked(i, v))
        with_index(i) ==
            IF i.sig # "ok" THEN i
            ELSE with_value(i, evaluate(node.value, i.st))
    IN  IF ~g.found
        THEN FluxRuntimeError(st, <<"Undefined variable '", node.array, "'">>)
        ELSE with_index(evaluate(node.index, st))

\* Evaluator.visit_array_access
visit_array_access(node, st) ==
    LET g == get(st.heap, st.env, node.array)
        checked(i) ==
            IF g.value.t # "array"
            THEN FluxRuntimeError(i.st, <<"Cannot index non-array type: ",
                                          TypeName(g.value)>>)
            ELSE IF ~IsInt(i.value)
            THEN FluxRuntimeError(i.st, <<"Array index must be an integer, got ",
                                          TypeName(i.value)>>)
            ELSE IF ~index_in_bounds(i.value.v, i.st.arrays[g.value.v])
            THEN FluxRuntimeError(i.st, <<"Array index ">> \o stringify(i.value, i.st)
                                            \o <<" out of bounds">>)
            ELSE Ok(i.st, i.st.arrays[g.value.v][i.value.v + 1])
        done(i, r) ==
            [r EXCEPT !.st = Logged(@, [ev |-> "index", holder |-> g.value,
                                        index |-> i.value, value |-> r.value,
                                        sig |-> r.sig, arrays |-> i.st.arrays])]
        with_index(i) ==
            IF i.sig # "ok" THEN i
            ELSE done(i, checked(i))
    IN  IF ~g.found
        THEN FluxRuntimeError(st, <<"Undefined variable '", node.array, "'">>)
        ELSE with_index(evaluate(node.index, st))

\* Evaluator.visit_func_call, line 395: the call is signalled as a TailCall
tail_call_requested(callee, st) ==
    st.in_tail_position /\ IsFunction(callee)
    /\ callee.v = st.current_function

\* The activation of Function.call leaves the native stack.
Unwound(r) == [r EXCEPT !.st.stack = SubSeq(@, 1, Len(@) - 1)]

\* Function.call, the `while True` loop of lines 114-131 inside the try of
\* lines 108-135; k counts the executions of the body by this activation.
trampoline(f, env, prev_function, prev_env, token, k, st) ==
    IF st.fuel = 0 THEN FluxRuntimeError(st, <<"out of fuel">>)
    ELSE
    LET self == st.fns[f]
        st1 == Logged([st EXCEPT !.fuel = @ - 1],
                      [ev |-> "body", function |-> f, env |-> env,
                       parent |-> st.heap[env].parent, caller_env |-> prev_env,
                       stack |-> st.stack, k |-> k, heap |-> st.heap])
        with_body(r) ==
            LET restored == [r.st EXCEPT !.current_function = prev_function,
                                         !.env = prev_env]
            IN  CASE r.sig = "ok" -> Ok(restored, r.value)
                  [] r.sig = "Return" -> Ok(restored, r.value)
                  [] r.sig = "Error" -> r
                  [] r.sig = "TailCall" ->
                        IF r.function # f
                        THEN call(r.function, r.arguments, token, restored)
                        ELSE IF arity_mismatch(self, r.arguments)
                        THEN FluxRuntimeError(r.st, ArityMessage(Len(self.params),
                                                                 Len(r.arguments)))
                        ELSE trampoline(f, env, prev_function, prev_env, token, k + 1,
                                        [r.st EXCEPT !.heap =
                                            assign_params(@, env, self.params,
                                                          r.arguments, 1)])
    IN  with_body(execute_block(self.declaration.body, env, st1))

\* Function.call
call(f, arguments, token, st) ==
    LET self == st.fns[f]
    IN  IF arity_mismatch(self, arguments)
        THEN FluxRuntimeError(st, ArityMessage(Len(self.params), Len(arguments)))
        ELSE LET heap1 == call_environment(self, st)
                 env == Len(heap1)
                 st1 == [st EXCEPT !.heap = define_params(heap1, env, self.params,
                                                          arguments, 1),
                                   !.current_function = f,
                                   !.env = env,
                                   !.stack = Append(@, f)]
                 finished(r) ==
                     IF r.sig = "Error"
                     THEN [r EXCEPT !.st =
                              Logged([@ EXCEPT !.final = st.final],
                                     [ev |-> "failed", function |-> f,
                                      prev_function |-> st.current_function,
                                      current_function |-> r.st.current_function,
                                      stack |-> r.st.stack])]
                     ELSE IF r.sig # "ok" THEN [r EXCEPT !.st.final = st.final]
                     ELSE [r EXCEPT !.st =
                              Logged([@ EXCEPT !.final = st.final],
                                     [ev |-> "returned", function |-> f,
                                      value |-> r.value,
                                      before |-> st.in_tail_position,
                                      after |-> r.st.in_tail_position,
                                      prev_function |-> st.current_function,
                                      current_function |-> r.st.current_function,
                                      bodies |-> Cardinality({j \in (Len(st.log) + 1)..Len(r.st.log) :
                                                      /\ r.st.log[j].ev = "body"
                                                      /\ r.st.log[j].function = f
                                                      /\ r.st.log[j].stack = st1.stack})])]
             IN  finished(Unwound(trampoline(f, env, st.current_function, st.env,
                                             token, 1, st1)))

\* Evaluator.visit_func_call
visit_func_call(node, st) ==
    LET called(c, a) ==
            LET event == [token |-> node.token,
                          current_function |-> a.st.current_function,
                          callee |-> c.value.v, nargs |-> Len(a.arguments),
                          arguments |-> a.arguments, heap |-> a.st.heap]
            IN  IF tail_call_requested(c.value, a.st)
                THEN RaiseTailCall(Logged(a.st, [ev |-> "TailCall"] @@ event),
                                   c.value.v, a.arguments)
                ELSE IF c.value.t = "builtin" THEN builtin_len(a.arguments, a.st)
                ELSE call(c.value.v, a.arguments, node.token,
                          Logged(a.st, [ev |-> "call"] @@ event))
        with_arguments(c, a) == IF a.sig # "ok" THEN a ELSE called(c, a)
        with_callee(c) ==
            IF c.sig # "ok" THEN c
            ELSE IF c.value.t \notin {"fn", "builtin"}
            THEN FluxRuntimeError(c.st, <<"Can only call functions, got: ", c.value.t>>)
            ELSE with_arguments(c, evaluate_args(node.args, 1, << >>, c.st))
    IN  with_callee(evaluate(node.callee, st))

\* Evaluator.visit_return, lines 407-414: the value has been evaluated
return_value(node, was_tail, r) ==
    LET with_arguments(c, a) ==
            IF a.sig # "ok" THEN a
            ELSE IF IsFunction(c.value) /\ c.value.v = a.st.current_function
            THEN RaiseTailCall(
                     Logged(a.st, [ev |-> "TailCall", token |-> node.value.token,
                                   current_function |-> a.st.current_function,
                                   callee |-> c.value.v,
                                   nargs |-> Len(a.arguments),
                                   arguments |-> a.arguments,
                                   heap |-> a.st.heap]),
                     c.value.v, a.arguments)
            ELSE RaiseReturn(a.st, r.value)
        with_callee(c) ==
            IF c.sig # "ok" THEN c
            ELSE with_arguments(c, evaluate_args(node.value.args, 1, << >>, c.st))
    IN  IF node.value.k = "FuncCall" /\ r.st.in_tail_position
        THEN with_callee(evaluate(node.value.callee, r.st))
        ELSE RaiseReturn(r.st, r.value)

\* Evaluator.visit_return: in_tail_position is restored in the finally clause
visit_return(node, st) ==
    LET was_tail == st.in_tail_position
        st1 == [st EXCEPT !.in_tail_position = (st.current_function # NoFunction)]
        with_value(r) == IF r.sig # "ok" THEN r ELSE return_value(node, was_tail, r)
    IN  [with_value(evaluate(node.value, st1)) EXCEPT !.st.in_tail_position = was_tail]

\* Evaluator.evaluate: None evaluates to None, a node dispatches on its class
evaluate(node, st) ==
    CASE node.k = "None" -> Ok(st, None)
      [] node.k = "Integer" -> visit_integer(node, st)
      [] node.k = "Boolean" -> visit_boolean(node, st)
      [] node.k = "Var" -> visit_var(node, st)
      [] node.k = "VarAssign" -> visit_var_assign(node, st)
      [] node.k = "VarReassign" -> visit_var_reassign(node, st)
      [] node.k = "BinOp" -> visit_bin_op(node, st)
      [] node.k = "UnaryOp" -> visit_unary_op(node, st)
      [] node.k = "Block" -> visit_block(node, st)
      [] node.k = "If" -> visit_if(node, st)
      [] node.k = "While" -> visit_while(node, st)
      [] node.k = "For" -> visit_for(node, st)
      [] node.k = "FuncDef" -> visit_func_def(node, st)
      [] node.k = "FuncCall" -> visit_func_call(node, st)
      [] node.k = "Return" -> visit_return(node, st)
      [] node.k = "Print" -> visit_print(node, st)
      [] node.k = "Match" -> visit_match(node, st)
      [] node.k = "String" -> visit_string(node, st)
      [] node.k = "Array" -> visit_array(node, st)
      [] node.k = "ArrayAssign" -> visit_array_assign(node, st)
      [] node.k = "ArrayAccess" -> visit_array_access(node, st)

\* Evaluator.interpret: [st, value, caught].  caught names the exception the
\* driver caught ("" when none): a FluxRuntimeError prints its message, any
\* other exception prints "Internal error: ..." (the traceback goes to stderr).
interpret(tree, st) ==
    LET executed(r) ==
            CASE r.sig = "ok" -> [st |-> r.st, value |-> r.value, caught |-> ""]
              [] r.sig = "Error" ->
                    [st |-> [r.st EXCEPT !.out = Append(@, r.message)],
                     value |-> None, caught |-> "FluxRuntimeError"]
              [] OTHER ->
                    [st |-> [r.st EXCEPT !.out = Append(@, <<"Internal error: ">>)],
                     value |-> None, caught |-> r.sig]
    IN  executed(execute_block(tree, GlobalEnv, st))

(***************************************************************************)
(* Programs: the trees handed to interpret.  Every FuncCall of a program   *)
(* carries its own token (the call site).                                  *)
(***************************************************************************)
\* A literal of the kind named by kind and made from the integer a: the
\* integer a (kind 0), the Boolean a > 0 (kind 1), the String of a's
\* digits (kind 2), the array [10, 11, 12] (kind 3), the built-in function
\* len (kind 4), the Function f (kind 5), the Nil f() returns (kind 6), the
\* Float a / 1 (kind 7).  Kinds 5 and 6 are for programs that define
\* func f() { }.
Literal(kind, a) ==
    CASE kind = 0 -> (IF a < 0 THEN UnaryOp("MINUS", Integer(-a)) ELSE Integer(a))
      [] kind = 1 -> Boolean(a > 0)
      [] kind = 2 -> String(IntText(a))
      [] kind = 3 -> Array(<<Integer(10), Integer(11), Integer(12)>>)
      [] kind = 4 -> Var("len")
      [] kind = 5 -> Var("f")
      [] kind = 6 -> FuncCall(Var("f"), << >>, 9)
      [] kind = 7 -> BinOp(Integer(a), "DIVIDE", Integer(1))

\* The binary operators that check the kinds of their operands
KindCheckedOperators ==
    <<"PLUS", "MINUS", "MULTIPLY", "DIVIDE", "EXPONENT", "REM", "LT", "GT", "LTE", "GTE">>

\* n argument expressions: 1, 2, ..., n
IntegerNodes(n) == [i \in 1..n |-> Integer(i)]

\* func fact(n) { if (n <= 1) { return 1 }  return n * fact(n - 1) }
\* print fact(a)
FactProgram(a) ==
    Block(<<
        FuncDef("fact", <<"n">>, Block(<<
            If(BinOp(Var("n"), "LTE", Integer(1)), Block(<<Return(Integer(1))>>), NoNode),
            Return(BinOp(Var("n"), "MULTIPLY",
                         FuncCall(Var("fact"), <<BinOp(Var("n"), "MINUS", Integer(1))>>, 1)))
        >>)),
        PrintNode(FuncCall(Var("fact"), <<Integer(a)>>, 2))
    >>)

\* func sum(n, acc) { if (n == 0) { return acc }  return sum(n - 1, acc + n) }
\* print sum(a, b)
SumProgram(a, b) ==
    Block(<<
        FuncDef("sum", <<"n", "acc">>, Block(<<
            If(BinOp(Var("n"), "EQEQ", Integer(0)), Block(<<Return(Var("acc"))>>), NoNode),
            Return(FuncCall(Var("sum"), <<BinOp(Var("n"), "MINUS", Integer(1)),
                                          BinOp(Var("acc"), "PLUS", Var("n"))>>, 1))
        >>)),
        PrintNode(FuncCall(Var("sum"), <<Integer(a), Integer(b)>>, 2))
    >>)

\* func count(n) { print n  if (n == 0) { return 0 }  count(n - 1) }
\* count(a)
CountProgram(a) ==
    Block(<<
        FuncDef("count", <<"n">>, Block(<<
            PrintNode(Var("n")),
            If(BinOp(Var("n"), "EQEQ", Integer(0)), Block(<<Return(Integer(0))>>), NoNode),
            FuncCall(Var("count"), <<BinOp(Var("n"), "MINUS", Integer(1))>>, 1)
        >>)),
        FuncCall(Var("count"), <<Integer(a)>>, 2)
    >>)

\* func sum(n, acc) { ... as above ... }
\* func g(n) { return sum(n, b) }
\* print g(a)
ViaProgram(a, b) ==
    Block(<<
        FuncDef("sum", <<"n", "acc">>, Block(<<
            If(BinOp(Var("n"), "EQEQ", Integer(0)), Block(<<Return(Var("acc"))>>), NoNode),
            Return(FuncCall(Var("sum"), <<BinOp(Var("n"), "MINUS", Integer(1)),
                                          BinOp(Var("acc"), "PLUS", Var("n"))>>, 1))
        >>)),
        FuncDef("g", <<"n">>, Block(<<
            Return(FuncCall(Var("sum"), <<Var("n"), Integer(b)>>, 2))
        >>)),
        PrintNode(FuncCall(Var("g"), <<Integer(a)>>, 3))
    >>)

\* func show(n) { print n  return n }
\* func same(n) { return n }
\* func f(n) { return same(show(n)) }
\* print f(a)
TwiceProgram(a) ==
    Block(<<
        FuncDef("show", <<"n">>, Block(<<PrintNode(Var("n")), Return(Var("n"))>>)),
        FuncDef("same", <<"n">>, Block(<<Return(Var("n"))>>)),
        FuncDef("f", <<"n">>, Block(<<
            Return(FuncCall(Var("same"), <<FuncCall(Var("show"), <<Var("n")>>, 1)>>, 2))
        >>)),
        PrintNode(FuncCall(Var("f"), <<Integer(a)>>, 3))
    >>)

\* var t = 0
\* func f(n) { print t  if (n == 0) { return 0 }  var t = n  return f(n - 1) }
\* f(a)
StaleProgram(a) ==
    Block(<<
        VarAssign("t", Integer(0)),
        FuncDef("f", <<"n">>, Block(<<
            PrintNode(Var("t")),
            If(BinOp(Var("n"), "EQEQ", Integer(0)), Block(<<Return(Integer(0))>>), NoNode),
            VarAssign("t", Var("n")),
            Return(FuncCall(Var("f"), <<BinOp(Var("n"), "MINUS", Integer(1))>>, 1))
        >>)),
        FuncCall(Var("f"), <<Integer(a)>>, 2)
    >>)

\* var x = a
\* return x
TopReturnProgram(a) ==
    Block(<<VarAssign("x", Integer(a)), Return(Var("x"))>>)

\* var x = a
\* func f() { return x }
\* func g() { var x = b  return f() }
\* print g()
ScopeProgram(a, b) ==
    Block(<<
        VarAssign("x", Integer(a)),
        FuncDef("f", << >>, Block(<<Return(Var("x"))>>)),
        FuncDef("g", << >>, Block(<<
            VarAssign("x", Integer(b)),
            Return(FuncCall(Var("f"), << >>, 1))
        >>)),
        PrintNode(FuncCall(Var("g"), << >>, 2))
    >>)

\* func make(n) { func inner(m) { return n + m }  return inner }
\* var n = 100
\* var h = make(a)
\* print h(b)
ClosureProgram(a, b) ==
    Block(<<
        FuncDef("make", <<"n">>, Block(<<
            FuncDef("inner", <<"m">>, Block(<<Return(BinOp(Var("n"), "PLUS", Var("m")))>>)),
            Return(Var("inner"))
        >>)),
        VarAssign("n", Integer(100)),
        VarAssign("h", FuncCall(Var("make"), <<Integer(a)>>, 1)),
        PrintNode(FuncCall(Var("h"), <<Integer(b)>>, 2))
    >>)

\* func f(p, q) { print p  return p }
\* print f(1, ..., a)
ArityProgram(a) ==
    Block(<<
        FuncDef("f", <<"p", "q">>, Block(<<PrintNode(Var("p")), Return(Var("p"))>>)),
        PrintNode(FuncCall(Var("f"), IntegerNodes(a), 1))
    >>)

\* func f(p, q) { print p  if (q == 2) { return 0 }  return f(1, ..., a) }
\* print f(b, 0)
TailArityProgram(a, b) ==
    Block(<<
        FuncDef("f", <<"p", "q">>, Block(<<
            PrintNode(Var("p")),
            If(BinOp(Var("q"), "EQEQ", Integer(2)), Block(<<Return(Integer(0))>>), NoNode),
            Return(FuncCall(Var("f"), IntegerNodes(a), 1))
        >>)),
        PrintNode(FuncCall(Var("f"), <<Integer(b), Integer(0)>>, 2))
    >>)

\* var x = a
\* { var x = b  print x }
\* print x
ShadowProgram(a, b) ==
    Block(<<
        VarAssign("x", Integer(a)),
        Block(<<VarAssign("x", Integer(b)), PrintNode(Var("x"))>>),
        PrintNode(Var("x"))
    >>)

\* var x = a
\* { var x = b  print y }
\* print x
ShadowErrorProgram(a, b) ==
    Block(<<
        VarAssign("x", Integer(a)),
        Block(<<VarAssign("x", Integer(b)), PrintNode(Var("y"))>>),
        PrintNode(Var("x"))
    >>)

\* var x = a
\* func f() { var x = a + 1  { var x = b  return x }  print x }
\* print f()
\* print x
ShadowReturnProgram(a, b) ==
    Block(<<
        VarAssign("x", Integer(a)),
        FuncDef("f", << >>, Block(<<
            VarAssign("x", BinOp(Integer(a), "PLUS", Integer(1))),
            Block(<<VarAssign("x", Integer(b)), Return(Var("x"))>>),
            PrintNode(Var("x"))
        >>)),
        PrintNode(FuncCall(Var("f"), << >>, 1)),
        PrintNode(Var("x"))
    >>)

\* var x = a
\* func f(n) { print x  if (n == 0) { return x }  { var x = b  f(n - 1) } }
\* print f(1)
\* print x
ShadowTailCallProgram(a, b) ==
    Block(<<
        VarAssign("x", Integer(a)),
        FuncDef("f", <<"n">>, Block(<<
            PrintNode(Var("x")),
            If(BinOp(Var("n"), "EQEQ", Integer(0)), Block(<<Return(Var("x"))>>), NoNode),
            Block(<<
                VarAssign("x", Integer(b)),
                FuncCall(Var("f"), <<BinOp(Var("n"), "MINUS", Integer(1))>>, 1)
            >>)
        >>)),
        PrintNode(FuncCall(Var("f"), <<Integer(1)>>, 2)),
        PrintNode(Var("x"))
    >>)

\* var x = a
\* y = b
\* print x
UndefinedProgram(a, b) ==
    Block(<<
        VarAssign("x", Integer(a)),
        VarReassign("y", Integer(b)),
        PrintNode(Var("x"))
    >>)

\* var x = a
\* func f() { var z = a  { y = b } }
\* f()
\* print x
UndefinedNestedProgram(a, b) ==
    Block(<<
        VarAssign("x", Integer(a)),
        FuncDef("f", << >>, Block(<<
            VarAssign("z", Integer(a)),
            Block(<<VarReassign("y", Integer(b))>>)
        >>)),
        FuncCall(Var("f"), << >>, 1),
        PrintNode(Var("x"))
    >>)

\* var x = a
\* var y = a
\* { var x = b  { x = c  y = c  print x }  print x }
\* print x
\* print y
ReassignProgram(a, b, c) ==
    Block(<<
        VarAssign("x", Integer(a)),
        VarAssign("y", Integer(a)),
        Block(<<
            VarAssign("x", Integer(b)),
            Block(<<
                VarReassign("x", Integer(c)),
                VarReassign("y", Integer(c)),
                PrintNode(Var("x"))
            >>),
            PrintNode(Var("x"))
        >>),
        PrintNode(Var("x")),
        PrintNode(Var("y"))
    >>)

\* var x = a
\* func f(x) { g() print x }
\* func g() { x = c }
\* f(b)
\* print x
ReassignClosureProgram(a, b, c) ==
    Block(<<
        VarAssign("x", Integer(a)),
        FuncDef("f", <<"x">>, Block(<<FuncCall(Var("g"), << >>, 1), PrintNode(Var("x"))>>)),
        FuncDef("g", << >>, Block(<<VarReassign("x", Integer(c))>>)),
        FuncCall(Var("f"), <<Integer(b)>>, 2),
        PrintNode(Var("x"))
    >>)

\* for i = a to b step c { print i }
ForProgram(a, b, c) ==
    Block(<<
        For("i", Integer(a), Integer(b), Integer(c), Block(<<PrintNode(Var("i"))>>))
    >>)

\* for i = a to b step c { print i  i = i + 10  var i = 0 }
ForAssignProgram(a, b, c) ==
    Block(<<
        For("i", Integer(a), Integer(b), Integer(c), Block(<<
            PrintNode(Var("i")),
            VarReassign("i", BinOp(Var("i"), "PLUS", Integer(10))),
            VarAssign("i", Integer(0))
        >>))
    >>)

\* for i = a to b { print i }
ForDefaultProgram(a, b) ==
    Block(<<
        For("i", Integer(a), Integer(b), NoNode, Block(<<PrintNode(Var("i"))>>))
    >>)

\* func show(n) { print n  return n }
\* print match show(a) { show(b) -> show(10), show(c) -> show(11), show(2) -> show(12) }
MatchProgram(a, b, c) ==
    Block(<<
        FuncDef("show", <<"n">>, Block(<<PrintNode(Var("n")), Return(Var("n"))>>)),
        PrintNode(Match(FuncCall(Var("show"), <<Integer(a)>>, 1), <<
            MatchCase(FuncCall(Var("show"), <<Integer(b)>>, 2),
                      FuncCall(Var("show"), <<Integer(10)>>, 3)),
            MatchCase(FuncCall(Var("show"), <<Integer(c)>>, 4),
                      FuncCall(Var("show"), <<Integer(11)>>, 5)),
            MatchCase(FuncCall(Var("show"), <<Integer(2)>>, 6),
                      FuncCall(Var("show"), <<Integer(12)>>, 7))
        >>))
    >>)

\* var xs = [10, 11, 12]   (the literal of kind c)
\* print xs[a]              (a as a literal of kind b)
ArrayReadProgram(a, b, c) ==
    Block(<<
        VarAssign("xs", Literal(c, a)),
        PrintNode(ArrayAccess("xs", Literal(b, a), 1))
    >>)

\* var xs = [10, 11, 12]  var ys = xs
\* xs[a] = b               (a as a literal of kind c)
\* xs[0] = xs[a]  print ys
ArrayWriteProgram(a, b, c) ==
    Block(<<
        VarAssign("xs", Array(<<Integer(10), Integer(11), Integer(12)>>)),
        VarAssign("ys", Var("xs")),
        ArrayAssign("xs", Literal(c, a), Integer(b), 1),
        ArrayAssign("xs", Integer(0), ArrayAccess("xs", Literal(c, a), 2), 3),
        PrintNode(Var("ys"))
    >>)

\* func f() { }
\* print 2 op 1      (2 as a literal of kind a, 1 as a literal of kind b, op the
\*                    c-th of KindCheckedOperators)
BinOpProgram(a, b, c) ==
    Block(<<
        FuncDef("f", << >>, Block(<< >>)),
        PrintNode(BinOp(Literal(a, 2), KindCheckedOperators[c], Literal(b, 1)))
    >>)

\* Expressions that fail: an undefined variable, a remainder by zero, a call
\* with too few arguments, an index into a number
Failing ==
    <<Var("nope"), BinOp(Integer(1), "REM", Integer(0)),
      FuncCall(Var("f"), << >>, 8), ArrayAccess("x", Integer(0), 7)>>

\* var x = 0
\* func f(n) { for i = 0 to 2 { { x = i  if (i == n) { x = x + <fails> } } }
\*             print 99  return 0 }     (<fails> the b-th of Failing)
\* f(a)  print 100
ErrorProgram(a, b) ==
    Block(<<
        VarAssign("x", Integer(0)),
        FuncDef("f", <<"n">>, Block(<<
            For("i", Integer(0), Integer(2), NoNode, Block(<<
                Block(<<
                    VarReassign("x", Var("i")),
                    If(BinOp(Var("i"), "EQEQ", Var("n")),
                       Block(<<VarReassign("x", BinOp(Var("x"), "PLUS", Failing[b]))>>),
                       NoNode)
                >>)
            >>)),
            PrintNode(Integer(99)),
            Return(Integer(0))
        >>)),
        FuncCall(Var("f"), <<Integer(a)>>, 1),
        PrintNode(Integer(100))
    >>)

\* The logical operators
LogicalOperators == <<"AND", "OR">>

\* func show(n) { print n  return n }
\* print show(a) op show(b)        (op the c-th of LogicalOperators)
LogicProgram(a, b, c) ==
    Block(<<
        FuncDef("show", <<"n">>, Block(<<PrintNode(Var("n")), Return(Var("n"))>>)),
        PrintNode(BinOp(FuncCall(Var("show"), <<Integer(a)>>, 1), LogicalOperators[c],
                        FuncCall(Var("show"), <<Integer(b)>>, 2)))
    >>)

\* func show(n) { print n  return n }
\* print show(a) op (1 % b)        (op the c-th of LogicalOperators)
LogicFailProgram(a, b, c) ==
    Block(<<
        FuncDef("show", <<"n">>, Block(<<PrintNode(Var("n")), Return(Var("n"))>>)),
        PrintNode(BinOp(FuncCall(Var("show"), <<Integer(a)>>, 1), LogicalOperators[c],
                        BinOp(Integer(1), "REM", Integer(b))))
    >>)

\* var x = a
\* { var y = a
\*   func show() { print x  print y }
\*   func set(v) { x = v  y = v }
\*   x = b  y = b  show()  set(c)  print x  print y }
\* print x
CaptureProgram(a, b, c) ==
    Block(<<
        VarAssign("x", Integer(a)),
        Block(<<
            VarAssign("y", Integer(a)),
            FuncDef("show", << >>, Block(<<PrintNode(Var("x")), PrintNode(Var("y"))>>)),
            FuncDef("set", <<"v">>, Block(<<VarReassign("x", Var("v")),
                                           VarReassign("y", Var("v"))>>)),
            VarReassign("x", Integer(b)),
            VarReassign("y", Integer(b)),
            FuncCall(Var("show"), << >>, 1),
            FuncCall(Var("set"), <<Integer(c)>>, 2),
            PrintNode(Var("x")),
            PrintNode(Var("y"))
        >>),
        PrintNode(Var("x"))
    >>)

\* for i = 0 to a { if (i == b) { print t }  var t = i  print t }
\* print t
ForScopeProgram(a, b) ==
    Block(<<
        For("i", Integer(0), Integer(a), NoNode, Block(<<
            If(BinOp(Var("i"), "EQEQ", Integer(b)), Block(<<PrintNode(Var("t"))>>), NoNode),
            VarAssign("t", Var("i")),
            PrintNode(Var("t"))
        >>)),
        PrintNode(Var("t"))
    >>)

\* func down(n) { if (n == 0) { return 0 }  return down(n - 1) }
\* { var x = a  { print x }  print down(x)  { print nope } }
ExitsProgram(a) ==
    Block(<<
        FuncDef("down", <<"n">>, Block(<<
            If(BinOp(Var("n"), "EQEQ", Integer(0)), Block(<<Return(Integer(0))>>), NoNode),
            Return(FuncCall(Var("down"), <<BinOp(Var("n"), "MINUS", Integer(1))>>, 1))
        >>)),
        Block(<<
            VarAssign("x", Integer(a)),
            Block(<<PrintNode(Var("x"))>>),
            PrintNode(FuncCall(Var("down"), <<Var("x")>>, 2)),
            Block(<<PrintNode(Var("nope"))>>)
        >>)
    >>)

\* The programs of the model, each named by its family and its parameters.
Program(family, as, bs, cs) == [family : {family}, a : as, b : bs, c : cs]

Programs ==
    Program("Fact", 0..MaxArg, {0}, {0})
    \cup Program("Sum", 0..MaxArg, 0..MaxArg, {0})
    \cup Program("Count", 0..MaxArg, {0}, {0})
    \cup Program("Via", 0..MaxArg, 0..MaxArg, {0})
    \cup Program("Twice", 0..MaxArg, {0}, {0})
    \cup Program("Stale", 0..MaxArg, {0}, {0})
    \cup Program("TopReturn", 0..MaxArg, {0}, {0})
    \cup Program("Scope", 0..MaxArg, 0..MaxArg, {0})
    \cup Program("Closure", 0..MaxArg, 0..MaxArg, {0})
    \cup Program("Arity", 0..MaxArg, {0}, {0})
    \cup Program("TailArity", 0..MaxArg, 0..MaxArg, {0})
    \cup Program("Shadow", 0..MaxArg, 0..MaxArg, {0})
    \cup Program("ShadowError", 0..MaxArg, 0..MaxArg, {0})
    \cup Program("ShadowReturn", 0..MaxArg, 0..MaxArg, {0})
    \cup Program("ShadowTailCall", 0..MaxArg, 0..MaxArg, {0})
    \cup Program("Undefined", 0..MaxArg, 0..MaxArg, {0})
    \cup Program("UndefinedNested", 0..MaxArg, 0..MaxArg, {0})
    \cup Program("Reassign", 0..MaxArg, 0..MaxArg, 0..MaxArg)
    \cup Program("ReassignClosure", 0..MaxArg, 0..MaxArg, 0..MaxArg)
    \cup Program("For", 0..MaxFor, 0..MaxFor, (-MaxStep)..MaxStep)
    \cup Program("ForAssign", 0..MaxFor, 0..MaxFor, (-MaxStep)..MaxStep)
    \cup Program("ForDefault", 0..MaxFor, 0..MaxFor, {0})
    \cup Program("Match", 0..MaxArg, 0..MaxArg, 0..MaxArg)
    \cup Program("ArrayRead", (-1)..MaxArg, 0..2, {0, 2, 3, 4})
    \cup Program("ArrayWrite", (-1)..MaxArg, 0..MaxArg, 0..2)
    \cup Program("BinOp", 0..7, 0..7, 1..10)
    \cup Program("Error", 0..MaxArg, 1..4, {0})
    \cup Program("Logic", 0..MaxArg, 0..MaxArg, 1..2)
    \cup Program("Capture", 0..MaxArg, 0..MaxArg, 0..MaxArg)
    \cup Program("ForScope", 0..MaxArg, 0..MaxArg, {0})
    \cup Program("Exits", 0..MaxArg, {0}, {0})
    \cup Program("LogicFail", 0..MaxArg, 0..MaxArg, 1..2)

Tree(p) ==
    CASE p.family = "Fact" -> FactProgram(p.a)
      [] p.family = "Sum" -> SumProgram(p.a, p.b)
      [] p.family = "Count" -> CountProgram(p.a)
      [] p.family = "Via" -> ViaProgram(p.a, p.b)
      [] p.family = "Twice" -> TwiceProgram(p.a)
      [] p.family = "Stale" -> StaleProgram(p.a)
      [] p.family = "TopReturn" -> TopReturnProgram(p.a)
      [] p.family = "Scope" -> ScopeProgram(p.a, p.b)
      [] p.family = "Closure" -> ClosureProgram(p.a, p.b)
      [] p.family = "Arity" -> ArityProgram(p.a)
      [] p.family = "TailArity" -> TailArityProgram(p.a, p.b)
      [] p.family = "Shadow" -> ShadowProgram(p.a, p.b)
      [] p.family = "ShadowError" -> ShadowErrorProgram(p.a, p.b)
      [] p.family = "ShadowReturn" -> ShadowReturnProgram(p.a, p.b)
      [] p.family = "ShadowTailCall" -> ShadowTailCallProgram(p.a, p.b)
      [] p.family = "Undefined" -> UndefinedProgram(p.a, p.b)
      [] p.family = "UndefinedNested" -> UndefinedNestedProgram(p.a, p.b)
      [] p.family = "Reassign" -> ReassignProgram(p.a, p.b, p.c)
      [] p.family = "ReassignClosure" -> ReassignClosureProgram(p.a, p.b, p.c)
      [] p.family = "For" -> ForProgram(p.a, p.b, p.c)
      [] p.family = "ForAssign" -> ForAssignProgram(p.a, p.b, p.c)
      [] p.family = "ForDefault" -> ForDefaultProgram(p.a, p.b)
      [] p.family = "Match" -> MatchProgram(p.a, p.b, p.c)
      [] p.family = "ArrayRead" -> ArrayReadProgram(p.a, p.b, p.c)
      [] p.family = "ArrayWrite" -> ArrayWriteProgram(p.a, p.b, p.c)
      [] p.family = "BinOp" -> BinOpProgram(p.a, p.b, p.c)
      [] p.family = "Error" -> ErrorProgram(p.a, p.b)
      [] p.family = "Logic" -> LogicProgram(p.a, p.b, p.c)
      [] p.family = "Capture" -> CaptureProgram(p.a, p.b, p.c)
      [] p.family = "ForScope" -> ForScopeProgram(p.a, p.b)
      [] p.family = "Exits" -> ExitsProgram(p.a)
      [] p.family = "LogicFail" -> LogicFailProgram(p.a, p.b, p.c)

(***************************************************************************)
(* The state machine: run_file constructs an Evaluator and interprets one  *)
(* program with it.                                                        *)
(***************************************************************************)
VARIABLES
    heap,               \* the Environment objects
    fns,                \* the Function objects
    arrays,             \* the list objects
    env,                \* Evaluator.env
    current_function,   \* Evaluator.current_function
    in_tail_position,   \* Evaluator.in_tail_position
    out,                \* the lines printed to standard output
    result,             \* the value interpret returned
    caught,             \* the exception interpret caught, "" when none
    log,                \* the trace of the run
    program,            \* the program of the run
    phase               \* "ready" (constructed) or "done" (interpret returned)

vars == <<heap, fns, arrays, env, current_function, in_tail_position, out, result, caught,
          log, program, phase>>

\* Evaluator.__init__ and add_builtins
NewEvaluator ==
    [heap |-> <<[parent |-> NoEnv, variables |-> ("len" :> BuiltinLen)]>>,
     fns |-> << >>, arrays |-> << >>, env |-> GlobalEnv, current_function |-> NoFunction,
     in_tail_position |-> FALSE]

\* The evaluator state a run starts from: nothing printed, no activation.
Running(ev) ==
    [heap |-> ev.heap, fns |-> ev.fns, arrays |-> ev.arrays, env |-> ev.env,
     current_function |-> ev.current_function,
     in_tail_position |-> ev.in_tail_position,
     out |-> << >>, log |-> << >>, stack |-> << >>, final |-> FALSE,
     fuel |-> MaxFuel]

\* run_file, lines 500-502: interpret, then the final result when it is not None
RunFile(tree, ev) ==
    LET interpreted(r) ==
            [r EXCEPT !.st.out =
                IF r.value.t = "nil" THEN @
                ELSE Append(@, <<"Final result: ">> \o stringify(r.value, r.st))]
    IN  interpreted(interpret(tree, Running(ev)))

Init ==
    /\ heap = NewEvaluator.heap
    /\ fns = NewEvaluator.fns
    /\ arrays = NewEvaluator.arrays
    /\ env = NewEvaluator.env
    /\ current_function = NewEvaluator.current_function
    /\ in_tail_position = NewEvaluator.in_tail_position
    /\ out = << >>
    /\ result = None
    /\ caught = ""
    /\ log = << >>
    /\ program = [family |-> "", a |-> 0, b |-> 0, c |-> 0]
    /\ phase = "ready"

\* run_file on one program
run_file ==
    /\ phase = "ready"
    /\ \E p \in Programs :
         LET ev == [heap |-> heap, fns |-> fns, arrays |-> arrays, env |-> env,
                    current_function |-> current_function,
                    in_tail_position |-> in_tail_position]
             returned(r) ==
                 /\ heap' = r.st.heap
                 /\ fns' = r.st.fns
                 /\ arrays' = r.st.arrays
                 /\ env' = r.st.env
                 /\ current_function' = r.st.current_function
                 /\ in_tail_position' = r.st.in_tail_position
                 /\ out' = r.st.out
                 /\ result' = r.value
                 /\ caught' = r.caught
                 /\ log' = r.st.log
                 /\ program' = p
         IN  returned(RunFile(Tree(p), ev))
    /\ phase' = "done"

\* run_file, line 493: the next file gets an Evaluator of its own
new_evaluator ==
    /\ phase = "done"
    /\ heap' = NewEvaluator.heap
    /\ fns' = NewEvaluator.fns
    /\ arrays' = NewEvaluator.arrays
    /\ env' = NewEvaluator.env
    /\ current_function' = NewEvaluator.current_function
    /\ in_tail_position' = NewEvaluator.in_tail_position
    /\ out' = << >>
    /\ result' = None
    /\ caught' = ""
    /\ log' = << >>
    /\ program' = [family |-> "", a |-> 0, b |-> 0, c |-> 0]
    /\ phase' = "ready"

Next == run_file \/ new_evaluator

Spec == Init /\ [][Next]_vars

(***************************************************************************)
(* Definitions the claims are stated with.                                 *)
(***************************************************************************)
Done == phase = "done"

Events == 1..Len(log)

\* The child nodes of a node, in source order.
Children(node) ==
    CASE node.k \in {"None", "Integer", "Boolean", "Var", "String"} -> << >>
      [] node.k \in {"VarAssign", "VarReassign", "Return"} -> <<node.value>>
      [] node.k = "BinOp" -> <<node.left, node.right>>
      [] node.k = "UnaryOp" -> <<node.right>>
      [] node.k = "Block" -> node.statements
      [] node.k = "If" -> <<node.condition, node.then_branch, node.else_branch>>
      [] node.k = "While" -> <<node.condition, node.body>>
      [] node.k = "For" -> <<node.start, node.end, node.step, node.body>>
      [] node.k = "FuncDef" -> <<node.body>>
      [] node.k = "FuncCall" -> <<node.callee>> \o node.args
      [] node.k = "Print" -> <<node.expression>>
      [] node.k = "Match" -> <<node.expression>> \o node.cases
      [] node.k = "MatchCase" -> <<node.pattern, node.body>>
      [] node.k = "Array" -> node.elements
      [] node.k = "ArrayAssign" -> <<node.index, node.value>>
      [] node.k = "ArrayAccess" -> <<node.index>>

\* The tokens of the calls of the function called name below node.
RECURSIVE CallSites(_, _)
CallSites(node, name) ==
    (IF node.k = "FuncCall" /\ node.callee.k = "Var" /\ node.callee.name = name
     THEN {node.token} ELSE {})
    \cup UNION {CallSites(Children(node)[i], name) : i \in 1..Len(Children(node))}

\* The tokens of the calls in tail position of a function body: the call that
\* is the whole operand of a final `return`, or the final statement itself.
TailSites(body) ==
    IF Len(body.statements) = 0 THEN {}
    ELSE LET last == body.statements[Len(body.statements)]
         IN  IF last.k = "Return" /\ last.value.k = "FuncCall" THEN {last.value.token}
             ELSE IF last.k = "FuncCall" THEN {last.token}
             ELSE {}

\* A function that calls itself, and only in tail position.
PurelyTailRecursive(fn) ==
    /\ CallSites(fn.declaration.body, fn.name) # {}
    /\ CallSites(fn.declaration.body, fn.name) \subseteq TailSites(fn.declaration.body)

\* The Environments on the parent chain of e, e included.
RECURSIVE Ancestors(_, _)
Ancestors(h, e) ==
    {e} \cup (IF h[e].parent = NoEnv THEN {} ELSE Ancestors(h, h[e].parent))

\* The Environments of the chain of e that bind name.
Binders(h, e, name) == {x \in Ancestors(h, e) : name \in DOMAIN h[x].variables}

\* The nearest of them: every other binder is one of its ancestors.
Nearest(h, e, name) ==
    CHOOSE t \in Binders(h, e, name) :
        \A u \in Binders(h, e, name) : u \in Ancestors(h, t)

\* Only the raise and block exits are logged after event i: nothing was
\* evaluated after it.
NothingAfter(i) == \A j \in Events : j > i => log[j].ev \in {"raise", "block", "left", "failed"}

\* The last line printed.
LastLine == out[Len(out)]

\* Naive recursion: the functions of the recursive programs computed by
\* ordinary nested calls, each with parameters of its own.
RECURSIVE NaiveFact(_)
NaiveFact(n) == IF n <= 1 THEN 1 ELSE n * NaiveFact(n - 1)

RECURSIVE NaiveSum(_, _)
NaiveSum(n, acc) == IF n = 0 THEN acc ELSE NaiveSum(n - 1, acc + n)

\* What naive recursion prints before the final result, and the value it
\* returns: count prints n, n-1, ..., 0; the f of Stale prints the global t,
\* which no call changes, once per call; the f of Twice calls show once.
NaivePrinted(p) ==
    CASE p.family = "Fact" -> <<IntText(NaiveFact(p.a))>>
      [] p.family = "Sum" -> <<IntText(NaiveSum(p.a, p.b))>>
      [] p.family = "Via" -> <<IntText(NaiveSum(p.a, p.b))>>
      [] p.family = "Count" -> [k \in 1..(p.a + 1) |-> IntText(p.a + 1 - k)]
      [] p.family = "Stale" -> [k \in 1..(p.a + 1) |-> IntText(0)]
      [] p.family = "Twice" -> <<IntText(p.a), IntText(p.a)>>

NaiveResult(p) ==
    CASE p.family = "Fact" -> IntV(NaiveFact(p.a))
      [] p.family \in {"Sum", "Via"} -> IntV(NaiveSum(p.a, p.b))
      [] p.family \in {"Count", "Stale"} -> IntV(0)
      [] p.family = "Twice" -> IntV(p.a)

\* C1: tail-call elimination never changes observable results: for the
\* programs whose functions call themselves (in tail position or not) or
\* return the value of a call, the value returned and the lines printed are
\* those of naive recursion.
C1_SameAsNaiveRecursion ==
    (Done /\ program.family \in {"Fact", "Sum", "Via", "Count", "Stale", "Twice"}) =>
        /\ result = NaiveResult(program)
        /\ out = NaivePrinted(program)
                    \o <<(<<"Final result: ">> \o IntText(NaiveResult(program).v))>>

\* C2: a TailCall is signalled only for a call in tail position of the body
\* of the active function (the operand of its final `return`, or its final
\* statement) whose callee is current_function; every other call is an
\* ordinary call.
C2_TailCallOnlyInTailPosition ==
    \A i \in Events :
        /\ log[i].ev = "TailCall" =>
              /\ log[i].callee = log[i].current_function
              /\ log[i].token \in TailSites(fns[log[i].current_function].declaration.body)
        /\ (log[i].ev = "call" /\ log[i].current_function # NoFunction) =>
              ~(/\ log[i].callee = log[i].current_function
                /\ log[i].token \in TailSites(fns[log[i].current_function].declaration.body))

\* C3: a chain of self-tail-calls does not grow the native stack.  For a
\* purely tail-recursive function an activation of Function.call is never
\* started from an activation of the same function, and its k-th execution
\* of the body (k > 1) runs on the same stack of activations, in the same
\* Environment, as its first.
C3_TailChainKeepsDepth ==
    \A j \in Events :
        (log[j].ev = "body" /\ PurelyTailRecursive(fns[log[j].function])) =>
            /\ Len(log[j].stack) = 1
               \/ log[j].stack[Len(log[j].stack) - 1] # log[j].function
            /\ log[j].k > 1 =>
                  \E i \in 1..(j - 1) :
                      /\ log[i].ev = "body"
                      /\ log[i].function = log[j].function
                      /\ log[i].k = 1
                      /\ log[i].env = log[j].env
                      /\ log[i].stack = log[j].stack

\* C3 witness: the third execution of the body of a purely tail-recursive
\* function, still at depth 1.
C3_Witness ==
    /\ Done
    /\ \E j \in Events :
          /\ log[j].ev = "body"
          /\ PurelyTailRecursive(fns[log[j].function])
          /\ log[j].k >= 3
          /\ Len(log[j].stack) = 1

\* C4: no Return or TailCall signal reaches the top-level driver: interpret
\* never catches one.
C4_SignalsConsumed == caught \notin {"Return", "TailCall"}

\* C5: scoping is lexical.  Every call runs its body in a fresh Environment
\* whose parent is the Environment that was current when the function was
\* defined, never the caller's; so a free variable of the body resolves to the
\* binding visible at the definition site (Scope prints a, not the caller's b;
\* Closure adds the n captured by make, not the global n).
C5_LexicalScope ==
    /\ \A j \in Events :
          log[j].ev = "body" =>
              /\ \E i \in 1..(j - 1) :
                    /\ log[i].ev = "def"
                    /\ log[i].function = log[j].function
                    /\ log[i].env = log[j].parent
              /\ heap[log[j].env].parent = log[j].parent
              /\ log[j].k = 1 =>
                    \A i \in 1..(j - 1) : log[i].ev = "body" => log[i].env # log[j].env
    /\ (Done /\ program.family = "Scope") => out[1] = IntText(program.a)
    /\ (Done /\ program.family = "Closure") => out[1] = IntText(program.a + program.b)

\* C5 witness: a body runs for a caller whose Environment is not the
\* function's closure and binds the free variable x to another value.
C5_Witness ==
    /\ Done
    /\ program.family = "Scope"
    /\ program.a # program.b
    /\ \E j \in Events :
          /\ log[j].ev = "body"
          /\ log[j].caller_env # log[j].parent
          /\ "x" \in DOMAIN heap[log[j].caller_env].variables
          /\ heap[log[j].caller_env].variables["x"] = IntV(program.b)

\* C6: a call whose argument count differs from the parameter count, ordinary
\* or a self-tail-call taken by the trampoline, fails with the arity error
\* naming both counts; nothing is evaluated after the call was made (the body
\* does not run) and no Environment is created or changed.
C6_ArityChecked ==
    \A i \in Events :
        (/\ log[i].ev \in {"call", "TailCall"}
         /\ log[i].nargs # Len(fns[log[i].callee].params)) =>
            /\ caught = "FluxRuntimeError"
            /\ LastLine = ArityMessage(Len(fns[log[i].callee].params), log[i].nargs)
            /\ NothingAfter(i)
            /\ heap = log[i].heap

\* C6 witness: a self-tail-call with a wrong argument count reached the
\* trampoline after the body had run once.
C6_Witness ==
    /\ Done
    /\ \E i \in Events :
          /\ log[i].ev = "TailCall"
          /\ log[i].nargs > Len(fns[log[i].callee].params)
          /\ \E j \in 1..(i - 1) : log[j].ev = "body"

\* C7: shadowing.  A `var` in a block changes the block's own Environment
\* only: every other Environment, and every other name, is as before.  When
\* the block exits, normally or by Return, TailCall or an error, the current
\* Environment is the enclosing one again, and the outer x of the Shadow
\* programs still has the value it had before the block.
C7_ShadowingKeepsOuter ==
    /\ \A i \in Events :
          log[i].ev = "define" =>
              /\ Len(log[i].after) = Len(log[i].before)
              /\ \A e \in 1..Len(log[i].before) :
                    e # log[i].env => log[i].after[e] = log[i].before[e]
              /\ log[i].after[log[i].env].parent = log[i].before[log[i].env].parent
              /\ DOMAIN log[i].after[log[i].env].variables =
                    DOMAIN log[i].before[log[i].env].variables \cup {log[i].name}
              /\ \A n \in DOMAIN log[i].after[log[i].env].variables :
                    log[i].after[log[i].env].variables[n] =
                        IF n = log[i].name THEN log[i].value
                        ELSE log[i].before[log[i].env].variables[n]
    /\ \A i \in Events : log[i].ev = "block" => log[i].env = log[i].outer
    /\ (Done /\ program.family \in {"Shadow", "ShadowError", "ShadowReturn",
                                    "ShadowTailCall"}) =>
          /\ env = GlobalEnv
          /\ heap[GlobalEnv].variables["x"] = IntV(program.a)
    /\ (Done /\ program.family \in {"Shadow", "ShadowReturn", "ShadowTailCall"}) =>
          out[Len(out) - 1] = IntText(program.a)

\* C7 witness: a block that shadowed x with another value was left by Return.
C7_Witness ==
    /\ Done
    /\ program.family = "ShadowReturn"
    /\ program.a # program.b
    /\ \E i \in Events :
          /\ log[i].ev = "block"
          /\ log[i].sig = "Return"
          /\ heap[log[i].inner].variables["x"] = IntV(program.b)
          /\ heap[log[i].outer].variables["x"] = IntV(program.a + 1)

\* C8: reassigning a name bound in no Environment of the chain fails with
\* "Cannot reassign undefined variable", nothing is evaluated after it, and
\* every Environment is unchanged: no binding is created anywhere.
C8_ReassignUndefinedFails ==
    \A i \in Events :
        (/\ log[i].ev = "assign"
         /\ Binders(log[i].before, log[i].env, log[i].name) = {}) =>
            /\ ~log[i].found
            /\ log[i].after = log[i].before
            /\ heap = log[i].before
            /\ caught = "FluxRuntimeError"
            /\ LastLine = <<"Cannot reassign undefined variable '", log[i].name, "'">>
            /\ NothingAfter(i)

\* C8 witness: the failing reassignment happened in a block of a function
\* body, three Environments deep.
C8_Witness ==
    /\ Done
    /\ \E i \in Events :
          /\ log[i].ev = "assign"
          /\ Binders(log[i].before, log[i].env, log[i].name) = {}
          /\ Cardinality(Ancestors(log[i].before, log[i].env)) >= 3

\* C9: reassigning a name bound in the chain changes exactly one binding, the
\* one of the nearest Environment binding the name; outer bindings of the name
\* and all other names keep their values, and the enclosing scope sees the new
\* value afterwards (Reassign prints c, c, a, c; ReassignClosure prints b, c).
C9_ReassignNearest ==
    /\ \A i \in Events :
          (/\ log[i].ev = "assign"
           /\ Binders(log[i].before, log[i].env, log[i].name) # {}) =>
              /\ log[i].found
              /\ log[i].after =
                    [log[i].before EXCEPT
                        ![Nearest(log[i].before, log[i].env, log[i].name)]
                            .variables[log[i].name] = log[i].value]
    /\ (Done /\ program.family = "Reassign") =>
          SubSeq(out, 1, 4) = <<IntText(program.c), IntText(program.c),
                                IntText(program.a), IntText(program.c)>>
    /\ (Done /\ program.family = "ReassignClosure") =>
          SubSeq(out, 1, 2) = <<IntText(program.b), IntText(program.c)>>

\* C9 witness: the name was bound twice in the chain, and not in the
\* Environment the reassignment ran in.
C9_Witness ==
    /\ Done
    /\ program.a # program.b /\ program.b # program.c /\ program.a # program.c
    /\ \E i \in Events :
          /\ log[i].ev = "assign"
          /\ Cardinality(Binders(log[i].before, log[i].env, log[i].name)) = 2
          /\ Nearest(log[i].before, log[i].env, log[i].name) # log[i].env

\* The values `for` is to visit: start, start + step, ... up to end.
ExpectedVisits(start, end, step) ==
    LET n == IF step > 0
             THEN (IF start > end THEN 0 ELSE ((end - start) \div step) + 1)
             ELSE (IF start < end THEN 0 ELSE ((start - end) \div (-step)) + 1)
    IN  [k \in 1..n |-> start + (k - 1) * step]

\* The loop variable at the start of each iteration of loop id, in order.
RECURSIVE IterValues(_, _)
IterValues(id, i) ==
    IF i > Len(log) THEN << >>
    ELSE (IF log[i].ev = "iter" /\ log[i].id = id THEN <<log[i].value.v>> ELSE << >>)
         \o IterValues(id, i + 1)

\* C10: a `for` loop with integer start, end and non-zero step that runs to
\* its end executes its body once for each of start, start + step, ... within
\* end, in that order, with the loop variable holding that value at the start
\* of the iteration whatever the body assigned to it; `0 to 5 step 2` visits
\* 0, 2, 4 and `5 to 0 step -1` visits 5, 4, 3, 2, 1, 0; a step of zero fails
\* before any iteration.
C10_ForVisits ==
    /\ \A i \in Events :
          (/\ log[i].ev = "for"
           /\ \E j \in Events : log[j].ev = "forend" /\ log[j].id = log[i].id) =>
              IterValues(log[i].id, 1) =
                  ExpectedVisits(log[i].start, log[i].end, log[i].step)
    /\ (Done /\ program.family \in {"For", "ForAssign"} /\ program.c # 0) =>
          /\ caught = ""
          /\ \E i \in Events : log[i].ev = "forend"
          /\ LET visits == ExpectedVisits(program.a, program.b, program.c)
             IN  /\ Len(out) >= Len(visits)
                 /\ \A k \in 1..Len(visits) : out[k] = IntText(visits[k])
                 /\ \A k \in 1..Len(out) :
                       k > Len(visits) => out[k][1] = "Final result: "
    /\ (Done /\ program.family = "For" /\ program.a = 0 /\ program.b = 5
             /\ program.c = 2) =>
          SubSeq(out, 1, Len(out) - 1) = <<IntText(0), IntText(2), IntText(4)>>
    /\ (Done /\ program.family = "For" /\ program.a = 5 /\ program.b = 0
             /\ program.c = -1) =>
          SubSeq(out, 1, Len(out) - 1) =
              <<IntText(5), IntText(4), IntText(3), IntText(2), IntText(1), IntText(0)>>
    /\ (Done /\ program.family \in {"For", "ForAssign"} /\ program.c = 0) =>
          /\ caught = "FluxRuntimeError"
          /\ out = <<<<"Step cannot be zero">>>>
          /\ \A i \in Events : log[i].ev # "iter"

\* C10 witness: `0 to 5 step 2` ran to its end with a body that assigns the
\* loop variable, and visited three values.
C10_Witness ==
    /\ Done
    /\ program = [family |-> "ForAssign", a |-> 0, b |-> 5, c |-> 2]
    /\ \E i \in Events : log[i].ev = "forend"
    /\ \E i \in Events : log[i].ev = "assign" /\ log[i].name = "i"
    /\ \E i \in Events : log[i].ev = "for" /\ IterValues(log[i].id, 1) = <<0, 2, 4>>

(***************************************************************************)
(* match (visit_match)                                                     *)
(***************************************************************************)
\* The patterns of MatchProgram, in source order
MatchPatterns(p) == <<p.b, p.c, 2>>

\* The first case of MatchProgram whose pattern equals the scrutinee, 0 if none
FirstMatch(p) ==
    IF \E i \in 1..3 : MatchPatterns(p)[i] = p.a
    THEN CHOOSE i \in 1..3 :
            /\ MatchPatterns(p)[i] = p.a
            /\ \A j \in 1..(i - 1) : MatchPatterns(p)[j] # p.a
    ELSE 0

\* C11: match evaluates the scrutinee once, then the patterns in source order
\* up to and including the first one equal to the scrutinee, then the body of
\* that case and of no other, and yields that body's value; when no pattern
\* is equal it fails with a runtime error and evaluates no body.  Every
\* evaluation of MatchProgram prints its value, so the lines printed are the
\* evaluations in order.
C11_MatchFirstEqualCase ==
    (Done /\ program.family = "Match") =>
        LET i == FirstMatch(program)
            patterns(n) == [j \in 1..n |-> IntText(MatchPatterns(program)[j])]
        IN  IF i = 0
            THEN /\ out = <<IntText(program.a)>> \o patterns(3)
                              \o <<<<"No matching case found">>>>
                 /\ caught = "FluxRuntimeError"
                 /\ result = None
            ELSE /\ out = <<IntText(program.a)>> \o patterns(i)
                              \o <<IntText(9 + i), IntText(9 + i),
                                   <<"Final result: ">> \o IntText(9 + i)>>
                 /\ caught = ""
                 /\ result = IntV(9 + i)

\* A match whose second case is the first equal one although the third is
\* equal too: the third pattern and body are not evaluated
C11_Witness ==
    /\ Done /\ program = [family |-> "Match", a |-> 2, b |-> 1, c |-> 2]
    /\ out = <<<<"2">>, <<"1">>, <<"2">>, <<"1", "1">>, <<"1", "1">>,
               <<"Final result: ", "1", "1">>>>
    /\ result = IntV(11)

(***************************************************************************)
(* Arrays (visit_array_assign, visit_array_access)                         *)
(***************************************************************************)
\* An indexed read or write at trace position i has to fail: the variable
\* holds no Array, the index is no Integer, or the index is out of bounds.
\* a is the state of the lists when the checks are made.
MustFail(i, a) ==
    \/ log[i].holder.t # "array"
    \/ log[i].index.t # "int"
    \/ log[i].index.v < 0
    \/ log[i].index.v >= Len(a[log[i].holder.v])

\* The next read of the index of the write at trace position i, 0 if another
\* write to the same list comes first or there is no such read
NextRead(i) ==
    LET same(k) == /\ log[k].holder = log[i].holder
                   /\ log[k].ev \in {"index", "store"}
                   /\ log[k].sig = "ok"
                   /\ log[k].index.v = log[i].index.v
        later == {k \in Events : k > i /\ same(k)}
    IN  IF later = {} THEN 0
        ELSE LET k == CHOOSE n \in later : \A m \in later : n <= m
             IN  IF log[k].ev = "index" THEN k ELSE 0

\* C12: an indexed read or write through a variable fails when the variable
\* holds no Array, when the index is not an Integer and when the index is
\* negative or >= the length; a failed write leaves every list as it was; a
\* successful write of v at index i changes that element only, and the next
\* read of index i of the same list yields v.
C12_ArrayIndexing ==
    Done =>
        \A i \in Events :
            /\ log[i].ev = "index" =>
                    (MustFail(i, log[i].arrays) => log[i].sig = "Error")
            /\ log[i].ev = "store" =>
                    /\ MustFail(i, log[i].before) => log[i].sig = "Error"
                    /\ log[i].sig = "Error" => log[i].after = log[i].before
                    /\ log[i].sig = "ok" =>
                          /\ log[i].after =
                                [log[i].before EXCEPT
                                    ![log[i].holder.v][log[i].index.v + 1] = log[i].value]
                          /\ NextRead(i) # 0 => log[NextRead(i)].value = log[i].value

(***************************************************************************)
(* Operand kinds of the binary operators (visit_bin_op)                    *)
(***************************************************************************)
\* The kinds of Literal that are an Integer or a Float, a String, and a
\* Boolean or a Function
NumberKinds == {0, 7}
StringKinds == {2}
BooleanOrFunctionKinds == {1, 5}

\* The operand kinds for which the operator of a BinOpProgram has to succeed
KindsAccepted(p) ==
    \/ p.a \in NumberKinds /\ p.b \in NumberKinds
    \/ /\ KindCheckedOperators[p.c] = "PLUS"
       /\ \/ p.a \in StringKinds /\ p.b \in StringKinds
          \/ p.a \in StringKinds /\ p.b \in NumberKinds \cup BooleanOrFunctionKinds
          \/ p.a \in NumberKinds \cup BooleanOrFunctionKinds /\ p.b \in StringKinds

\* The type error of an operator
TypeErrorOf(operator) ==
    IF operator = "PLUS"
    THEN <<"Operands must be two numbers, two strings, or a string and another type for '+'">>
    ELSE <<"Operands must be numbers">>

\* C13: - * / ** % and < > <= >= fail with a type error unless both operands
\* are Integer or Float; + succeeds for two numbers, two Strings and a String
\* with an Integer, Float, Boolean or Function in either order, and fails
\* with a type error for every other pair of kinds.
C13_OperandKinds ==
    (Done /\ program.family = "BinOp") =>
        IF KindsAccepted(program)
        THEN caught = "" /\ Len(out) = 2
        ELSE /\ caught = "FluxRuntimeError"
             /\ out = <<TypeErrorOf(KindCheckedOperators[program.c])>>

(***************************************************************************)
(* Propagation of a FluxRuntimeError (execute_block, Function.call,        *)
(* interpret)                                                              *)
(***************************************************************************)
\* The trace positions where a FluxRuntimeError was raised
Raises == {i \in Events : log[i].ev = "raise"}

\* Trace position j records the exit of an operation the error passed
\* through: a block that was left, the failed indexed read or write, or a
\* call that was left.
ErrorExit(j) ==
    \/ log[j].ev \in {"block", "left"} /\ log[j].sig = "Error"
    \/ log[j].ev \in {"index", "store"} /\ log[j].sig = "Error"
    \/ log[j].ev = "failed"

\* C14: a FluxRuntimeError raised anywhere propagates unmodified through every
\* enclosing block, loop and call to interpret: after it is raised nothing is
\* evaluated (nothing more is printed, no Environment and no list changes),
\* and interpret prints its message and returns None.
C14_ErrorPropagates ==
    Done =>
        \A i \in Raises :
            /\ \A j \in Events : j > i => ErrorExit(j)
            /\ Raises = {i}
            /\ heap = log[i].heap
            /\ arrays = log[i].arrays
            /\ out = Append(log[i].out, log[i].message)
            /\ caught = "FluxRuntimeError"
            /\ result = None

\* An error raised in a block in an if in a block in the second iteration of
\* a for loop in a function: x keeps the value of that iteration, and
\* neither the rest of the function nor the rest of the program runs
C14_Witness ==
    /\ Done /\ program = [family |-> "Error", a |-> 1, b |-> 2, c |-> 0]
    /\ Raises # {}
    /\ heap[GlobalEnv].variables["x"] = IntV(1)
    /\ out = <<<<"Remainder by zero">>>>

(***************************************************************************)
(* The flag in_tail_position (execute_block, visit_return)                 *)
(***************************************************************************)
\* C15: in_tail_position is true only while the final statement of the body
\* of the active function is being evaluated (false at top level and during
\* the other statements of a body), and when a statement or a call has
\* finished, normally or through a Return, it has the value it had before.
C15_TailFlagScoped ==
    Done =>
        \A i \in Events :
            /\ log[i].ev = "stmt" =>
                    (log[i].flag => (log[i].function # NoFunction /\ log[i].final))
            /\ log[i].ev \in {"stmtend", "returned"} => log[i].after = log[i].before

(***************************************************************************)
(* The self tail call step of Function.call                                *)
(***************************************************************************)
\* The last event of kind ev before trace position j, 0 if there is none
LastBefore(ev, j) ==
    LET earlier == {i \in Events : i < j /\ log[i].ev = ev}
    IN  IF earlier = {} THEN 0 ELSE CHOOSE i \in earlier : \A m \in earlier : m <= i

\* The variables of an Environment after the parameters are bound to the
\* argument values
Rebound(variables, params, arguments) ==
    [x \in DOMAIN variables |->
        IF \E n \in 1..Len(params) : params[n] = x
        THEN arguments[CHOOSE n \in 1..Len(params) : params[n] = x]
        ELSE variables[x]]

\* C16: a self tail call is taken when all its arguments have been evaluated:
\* nothing is evaluated between the TailCall and the next execution of the
\* body, which runs in the Environment the activation began with, with the
\* Environments as they were when the arguments had been evaluated except
\* that every parameter is bound to its new argument value, and starts at the
\* first statement.  An activation ends by yielding the value of the Return
\* or of the body's last statement to its caller.
C16_SelfTailCallStep ==
    Done =>
        \A j \in Events :
            /\ (log[j].ev = "body" /\ log[j].k > 1) =>
                LET i == LastBefore("TailCall", j)
                    b == LastBefore("body", j)
                    e == log[j].env
                    params == fns[log[j].function].params
                IN  /\ i > b /\ b > 0
                    /\ log[i].callee = log[j].function
                    /\ log[b].function = log[j].function
                    /\ log[b].k = log[j].k - 1
                    /\ log[b].stack = log[j].stack
                    /\ log[b].env = e
                    /\ \A m \in Events :
                          (i < m /\ m < j) => log[m].ev \in {"block", "left"}
                    /\ Len(log[i].arguments) = Len(params)
                    /\ log[j].heap =
                          [log[i].heap EXCEPT
                              ![e].variables = Rebound(@, params, log[i].arguments)]
                    /\ log[j + 1].ev = "stmt" /\ log[j + 1].index = 1
            /\ log[j].ev = "returned" =>
                /\ log[j - 1].ev = "left"
                /\ \/ log[j - 2].ev = "stmtend" /\ log[j - 2].sig \in {"ok", "Return"}
                         /\ log[j - 2].value = log[j].value
                   \/ log[j - 2].ev = "body" /\ log[j].value = None

\* sum(2, 1): the arguments n - 1 and acc + n of the two self tail calls are
\* evaluated with the old n, and the third execution of the body returns 4
C16_Witness ==
    /\ Done /\ program = [family |-> "Sum", a |-> 2, b |-> 1, c |-> 0]
    /\ \E j \in Events :
          /\ log[j].ev = "body" /\ log[j].k = 3
          /\ log[j].heap[log[j].env].variables["n"] = IntV(0)
          /\ log[j].heap[log[j].env].variables["acc"] = IntV(4)
    /\ result = IntV(4)

(***************************************************************************)
(* and, or (visit_bin_op)                                                  *)
(***************************************************************************)
\* The text of a Boolean
BoolText(b) == IF b THEN <<"T", "r", "u", "e">> ELSE <<"F", "a", "l", "s", "e">>

\* left and right, left or right on truth values
Combined(c, left, right) == IF LogicalOperators[c] = "AND" THEN left /\ right ELSE left \/ right

\* C17: `and` and `or` do not short-circuit: the left and then the right
\* operand are evaluated once each, also when the left operand decides (the
\* right operand's output and its failure happen), and the result is the
\* Boolean truthy(left) AND / OR truthy(right).  The operands of LogicProgram
\* print their values; the right operand of LogicFailProgram fails for b = 0.
C17_NoShortCircuit ==
    /\ (Done /\ program.family = "Logic") =>
          LET value == Combined(program.c, program.a # 0, program.b # 0)
          IN  /\ out = <<IntText(program.a), IntText(program.b), BoolText(value),
                         <<"Final result: ">> \o BoolText(value)>>
              /\ result = BoolV(value)
              /\ caught = ""
    /\ (Done /\ program.family = "LogicFail") =>
          IF program.b = 0
          THEN /\ out = <<IntText(program.a), <<"Remainder by zero">>>>
               /\ caught = "FluxRuntimeError"
          ELSE LET value == Combined(program.c, program.a # 0, PyMod(1, program.b) # 0)
               IN  /\ out = <<IntText(program.a), BoolText(value),
                              <<"Final result: ">> \o BoolText(value)>>
                   /\ result = BoolV(value)

\* show(0) and show(2): the right operand is evaluated although the left one
\* is false; show(1) or (1 % 0): the right operand fails although the left
\* one is true
C17_Witness ==
    /\ Done
    /\ \/ /\ program = [family |-> "Logic", a |-> 0, b |-> 2, c |-> 1]
          /\ out[2] = <<"2">>
          /\ result = BoolV(FALSE)
       \/ /\ program = [family |-> "LogicFail", a |-> 1, b |-> 0, c |-> 2]
          /\ caught = "FluxRuntimeError"

(***************************************************************************)
(* Closures (Function.__init__, Function.call, visit_func_def)             *)
(***************************************************************************)
\* C18: a closure holds its defining Environment E itself, not a copy: a
\* variable of E or of an ancestor of E that is reassigned after the
\* definition is seen with its new value by a later call, and a reassignment
\* made by the body is seen in E after the call.  In CaptureProgram y is a
\* variable of E and x one of E's parent; show prints both after they were
\* reassigned from a to b, and set reassigns both to c.
C18_ClosureByReference ==
    (Done /\ program.family = "Capture") =>
        /\ out = <<IntText(program.b), IntText(program.b),
                   IntText(program.c), IntText(program.c), IntText(program.c),
                   <<"Final result: ">> \o IntText(program.c)>>
        /\ heap[GlobalEnv].variables["x"] = IntV(program.c)
        /\ caught = ""

\* The three values differ, and the functions were called with the block's
\* Environment as the parent of their own
C18_Witness ==
    /\ Done /\ program = [family |-> "Capture", a |-> 0, b |-> 1, c |-> 2]
    /\ out = <<<<"1">>, <<"1">>, <<"2">>, <<"2">>, <<"2">>, <<"Final result: ", "2">>>>
    /\ \E i \in Events : log[i].ev = "body" /\ heap[log[i].parent].parent = GlobalEnv

(***************************************************************************)
(* The Environments of a for loop (visit_for)                              *)
(***************************************************************************)
\* C19: every iteration of a `for` runs its body in a new Environment, empty
\* at the start of the iteration, whose parent is the loop's one Environment,
\* which holds the counter in all iterations; so a variable the body defines
\* in one iteration is not defined at the start of the next and not visible
\* after the loop.  ForScopeProgram reads t at the start of iteration b, and
\* after the loop: both fail.
C19_ForEnvironments ==
    /\ \A i \in Events :
          log[i].ev = "iter" =>
              /\ log[i].body_env = Len(log[i].heap)
              /\ log[i].heap[log[i].body_env].parent = log[i].loop_env
              /\ DOMAIN log[i].heap[log[i].body_env].variables = {}
              /\ log[i].var_name \in DOMAIN log[i].heap[log[i].loop_env].variables
              /\ \A j \in Events :
                    (log[j].ev = "iter" /\ j < i) =>
                        /\ log[j].body_env < log[i].body_env
                        /\ log[j].id = log[i].id => log[j].loop_env = log[i].loop_env
    /\ (Done /\ program.family = "ForScope") =>
          LET n == IF program.b <= program.a THEN program.b ELSE program.a + 1
          IN  /\ out = [k \in 1..n |-> IntText(k - 1)]
                           \o <<<<"Undefined variable '", "t", "'">>>>
              /\ caught = "FluxRuntimeError"

\* t, defined by the first two iterations, is not defined at the start of
\* the third
C19_Witness ==
    /\ Done /\ program = [family |-> "ForScope", a |-> 3, b |-> 2, c |-> 0]
    /\ out = <<<<"0">>, <<"1">>, <<"Undefined variable '", "t", "'">>>>
    /\ Cardinality({i \in Events : log[i].ev = "iter"}) = 3

(***************************************************************************)
(* Evaluator.env on the exit of a block (execute_block)                    *)
(***************************************************************************)
\* The ways execute_block was left in this run
Exits == {log[i].sig : i \in {j \in Events : log[j].ev = "left"}}

\* C20: when execute_block is left, by normal completion, Return, TailCall
\* or FluxRuntimeError, Evaluator.env is the Environment that was current
\* before the block started; so after interpret has returned, with a value or
\* after a reported error, Evaluator.env is the global Environment.
C20_EnvRestored ==
    /\ \A i \in Events : log[i].ev = "left" => log[i].env = log[i].previous
    /\ Done => env = GlobalEnv

\* A run in which blocks were left in all four ways, the last ones by an
\* error raised two blocks below the global Environment
C20_Witness ==
    /\ Done /\ program.family = "Exits"
    /\ caught = "FluxRuntimeError" /\ env = GlobalEnv
    /\ Exits = {"ok", "Return", "TailCall", "Error"}
    /\ \E i \in Events :
          log[i].ev = "left" /\ log[i].sig = "Error" /\ log[i].entered # log[i].previous

\* The trace positions where an activation of Function.call was left: with a
\* value ("returned") or by a FluxRuntimeError ("failed").
CallExits == {i \in Events : log[i].ev \in {"returned", "failed"}}

\* C21: current_function is restored on every exit of a call.  After
\* Function.call finishes by normal completion, by Return, by a trampolined
\* chain of self-tail-calls or by a FluxRuntimeError raised in the body or by
\* the trampoline's arity check, current_function is what it was before the
\* call; it is None whenever a statement of the top level starts, and after
\* interpret has returned, also from a program that failed inside a function.
C21_CurrentFunctionRestored ==
    /\ \A i \in CallExits : log[i].current_function = log[i].prev_function
    /\ \A i \in Events :
          (log[i].ev = "stmt" /\ log[i].stack = << >>) => log[i].function = NoFunction
    /\ Done => current_function = NoFunction
====
